---------------------------- MODULE Spec2Model ----------------------------
(* A model of the chaos agent (src/backend/chaos_agent.py) and of the      *)
(* runtime client it drives (src/backend/docker_functions.py).             *)
(*                                                                         *)
(* Optional values (Python's None) are sequences of length 0 or 1:         *)
(* None is << >> and a value v is << v >>.  Numbers of the summary are     *)
(* fixed-point integers (the value times 10^k, k the digits the code       *)
(* rounds to).                                                             *)
EXTENDS Integers, Sequences, FiniteSets, TLC

VARIABLES
    mode, fault, configured_targets, duration, interval, do_probe,
    inv, now, adverse,
    pc, end_time, iteration, targets, target, action_name,
    chk_site, chk_name, vi, check_result, listed_all, listed_run,
    fn_calls, fn_ret, raised, log_mark, cmds, result,
    before_ms, dock_before, inst, up_before, metrics_before,
    after_ms, dock_after, up_after, metrics_after,
    stats, log, lost, summary,
    unit_in, unit_out, box

vars == << mode, fault, configured_targets, duration, interval, do_probe,
           inv, now, adverse,
           pc, end_time, iteration, targets, target, action_name,
           chk_site, chk_name, vi, check_result, listed_all, listed_run,
           fn_calls, fn_ret, raised, log_mark, cmds, result,
           before_ms, dock_before, inst, up_before, metrics_before,
           after_ms, dock_after, up_after, metrics_after,
           stats, log, lost, summary, unit_in, unit_out, box >>

-----------------------------------------------------------------------------
(* Bounds of the model.                                                    *)

\* adverse events of the environment in one run (an inventory change, a
\* failed listing, command or sample, an exception of an action)
MaxAdverse == 1
\* log writes that fail in one run
MaxLost == 1
\* iterations of the loop in one focused run
MaxIter == 2
\* iterations of the loop in one mixed run
MaxIterMixed == 1
\* the largest --duration (the smallest is -1)
MaxDuration == 1
\* the largest --interval
MaxInterval == 1
\* the longest --targets list
MaxConfigured == 1
\* calls on a Stats object in the aggregation specification
MaxCalls == 3

-----------------------------------------------------------------------------
(* Optional values and small helpers.                                      *)

None == << >>
Some(v) == << v >>
Range(s) == { s[i] : i \in DOMAIN s }
SeqsUpTo(S, n) == UNION { [1..k -> S] : k \in 0..n }

\* bool(x) of an optional string: None and "" are falsy
Truthy(o) == o # None /\ o # Some("")

-----------------------------------------------------------------------------
(* Container names.  A name is a string; Chars gives its characters, so    *)
(* that lower() and startswith() are computed, not assumed.                *)

ContainerNames == { "testapp_cart", "worker", "Grafana-agent" }
UnitNames == ContainerNames \cup { "testapp_prometheus" }

Chars(n) ==
    CASE n = "testapp_cart" ->
           << "t","e","s","t","a","p","p","_","c","a","r","t" >>
      [] n = "worker" -> << "w","o","r","k","e","r" >>
      [] n = "Grafana-agent" ->
           << "G","r","a","f","a","n","a","-","a","g","e","n","t" >>
      [] n = "testapp_prometheus" ->
           << "t","e","s","t","a","p","p","_",
              "p","r","o","m","e","t","h","e","u","s" >>

UpperAlpha == << "A","B","C","D","E","F","G","H","I","J","K","L","M",
                 "N","O","P","Q","R","S","T","U","V","W","X","Y","Z" >>
LowerAlpha == << "a","b","c","d","e","f","g","h","i","j","k","l","m",
                 "n","o","p","q","r","s","t","u","v","w","x","y","z" >>

LowerChar(c) ==
    IF \E i \in DOMAIN UpperAlpha : UpperAlpha[i] = c
    THEN LowerAlpha[CHOOSE i \in DOMAIN UpperAlpha : UpperAlpha[i] = c]
    ELSE c

Lower(cs) == [ i \in DOMAIN cs |-> LowerChar(cs[i]) ]

StartsWith(cs, p) == Len(p) <= Len(cs) /\ SubSeq(cs, 1, Len(p)) = p

MONITORING_EXCLUDES ==
    { << "t","e","s","t","a","p","p","_",
         "p","r","o","m","e","t","h","e","u","s" >>,
      << "t","e","s","t","a","p","p","_","g","r","a","f","a","n","a" >>,
      << "p","r","o","m","e","t","h","e","u","s" >>,
      << "g","r","a","f","a","n","a" >>,
      << "j","a","e","g","e","r" >>,
      << "z","i","p","k","i","n" >>,
      << "l","o","k","i" >>,
      << "t","e","m","p","o" >>,
      << "o","t","e","l","-","c","o","l","l","e","c","t","o","r" >> }

MONITORING_PREFIXES ==
    { << "p","r","o","m","e","t","h","e","u","s" >>,
      << "g","r","a","f","a","n","a" >>,
      << "o","t","e","l" >>,
      << "l","o","k","i" >>,
      << "t","e","m","p","o" >>,
      << "z","i","p","k","i","n" >>,
      << "j","a","e","g","e","r" >> }

is_monitoring_container(name) ==
    LET n == Lower(Chars(name))
    IN  \/ n \in MONITORING_EXCLUDES
        \/ \E p \in MONITORING_PREFIXES : StartsWith(n, p)

-----------------------------------------------------------------------------
(* The container runtime: every container is absent, stopped, running or   *)
(* paused.  `docker ps` lists the running and the paused ones, `docker ps  *)
(* -a` every one that exists.  A listing that fails yields no container.   *)

Statuses == { "absent", "stopped", "running", "paused" }

Listed(st, all) ==
    IF all THEN st # "absent" ELSE st \in { "running", "paused" }

\* list_containers(all): the names returned, given whether the command ran
list_containers(i, all, ran) ==
    IF ran THEN { n \in DOMAIN i : Listed(i[n], all) } ELSE {}

\* does the runtime accept the command on a container in status st
DockerAccepts(op, st) ==
    CASE op = "pause" -> st = "running"
      [] op = "unpause" -> st = "paused"
      [] op = "restart" -> st # "absent"
      [] op = "kill" -> st \in { "running", "paused" }
      [] op = "start" -> st \in { "stopped", "running" }
      [] op = "update" -> st # "absent"
      [] op = "exec" -> st = "running"
      [] op = "stats" -> st # "absent"

\* the status an accepted command leaves the container in
DockerEffect(op, st) ==
    CASE op = "pause" -> "paused"
      [] op = "unpause" -> "running"
      [] op = "restart" -> "running"
      [] op = "kill" -> "stopped"
      [] op = "start" -> "running"
      [] OTHER -> st

\* _run / _run_docker: the result of a command; error is None iff it ran
\* and exited with code 0
RunResult(op, st, ran) ==
    [ cmd |-> op,
      error |-> IF ran /\ DockerAccepts(op, st) THEN None
                ELSE IF ran THEN Some("exit 1") ELSE Some("Timeout") ]

-----------------------------------------------------------------------------
(* Target eligibility.                                                     *)

\* list(names): a set put in some order (the order is never relied upon)
SetToSeq(S) == CHOOSE s \in [1..Cardinality(S) -> S] : Range(s) = S

pick_targets_nofilter(names, configured) ==
    IF configured # << >>
    THEN SelectSeq(configured, LAMBDA n : n \in names)
    ELSE SetToSeq(names)

\* pick_targets(configured), given the names `docker ps` returned
pick_targets(names, configured) ==
    LET base == IF configured # << >>
                THEN SelectSeq(configured, LAMBDA n : n \in names)
                ELSE SetToSeq(names)
    IN  SelectSeq(base, LAMBDA n : ~ is_monitoring_container(n))

ReasonMonitoring == "target excluded (monitoring container)"
ReasonNotFound == "target not found"
ReasonNotRunning == "target not running"

CheckResult(ok, reason) == [ ok |-> ok, reason |-> reason ]

check_target_exists_first(name, allNames, runNames) ==
    IF name \notin allNames THEN CheckResult(FALSE, Some(ReasonNotFound))
    ELSE IF is_monitoring_container(name)
    THEN CheckResult(FALSE, Some(ReasonMonitoring))
    ELSE IF name \notin runNames
    THEN CheckResult(FALSE, Some(ReasonNotRunning))
    ELSE CheckResult(TRUE, None)

\* Monitor.check_target(name), given the names `docker ps -a` (allNames)
\* and `docker ps` (runNames) returned to it
check_target(name, allNames, runNames) ==
    IF is_monitoring_container(name)
    THEN CheckResult(FALSE, Some(ReasonMonitoring))
    ELSE IF name \notin allNames
    THEN CheckResult(FALSE, Some(ReasonNotFound))
    ELSE IF name \notin runNames
    THEN CheckResult(FALSE, Some(ReasonNotRunning))
    ELSE CheckResult(TRUE, None)

-----------------------------------------------------------------------------
(* Log records (one JSON line each; the timestamp is left out).            *)

ViolationRecord(action, tgt, reason) ==
    [ kind |-> "violation", action |-> action, target |-> tgt,
      violation |-> reason ]

EventRecord(action, tgt, res, upb, promb) ==
    [ kind |-> "event", action |-> action, target |-> tgt, result |-> res,
      up_before |-> upb, prom_before |-> promb ]

UpdateRecord(action, tgt, probe, up, prom, docker) ==
    [ kind |-> "update", action |-> action, target |-> tgt,
      probe_ms |-> probe, up |-> up, prom |-> prom, docker |-> docker ]

StartupSummaryRecord(action, eligible, message) ==
    [ kind |-> "startup_summary", action |-> action,
      eligible_running |-> eligible, message |-> message ]

SummaryRecord(s) == [ kind |-> "summary", summary |-> s ]

write_log_line_truncate(l, rec, written) ==
    IF written THEN << rec >> ELSE l

write_log_line_prepend(l, rec, written) ==
    IF written THEN << rec >> \o l ELSE l

\* write_log_line: the line is appended, or the write fails and the
\* failure is swallowed
write_log_line(l, rec, written) == IF written THEN Append(l, rec) ELSE l

-----------------------------------------------------------------------------
(* Running statistics (class Stats).                                       *)

EmptyMap == [ k \in {} |-> 0 ]
Get(d, k, default) == IF k \in DOMAIN d THEN d[k] ELSE default
Put(d, k, v) == [ x \in DOMAIN d \cup { k } |-> IF x = k THEN v ELSE d[x] ]

StatsInit ==
    [ total |-> 0, errors |-> 0, by_action |-> EmptyMap, by_target |-> EmptyMap,
      lat_before |-> << >>, lat_after |-> << >>,
      fail_before |-> 0, fail_after |-> 0,
      prom_series |-> EmptyMap,
      up_before_vals |-> << >>, up_after_vals |-> << >>,
      up_missing_before |-> 0, up_missing_after |-> 0,
      docker_cpu_before |-> << >>, docker_cpu_after |-> << >>,
      docker_mem_before |-> << >>, docker_mem_after |-> << >> ]

StatsAdd_errors_only(s, action, tgt, ok) ==
    [ s EXCEPT !.total = IF ok THEN @ ELSE @ + 1,
               !.errors = IF ok THEN @ ELSE @ + 1,
               !.by_action = Put(@, action, Get(@, action, 0) + 1),
               !.by_target = Put(@, tgt, Get(@, tgt, 0) + 1) ]

\* Stats.add
StatsAdd(s, action, tgt, ok) ==
    [ s EXCEPT !.total = @ + 1,
               !.errors = IF ok THEN @ ELSE @ + 1,
               !.by_action = Put(@, action, Get(@, action, 0) + 1),
               !.by_target = Put(@, tgt, Get(@, tgt, 0) + 1) ]

\* Stats.add_probe
StatsAddProbe(s, b_ms, a_ms) ==
    [ s EXCEPT !.fail_before = IF b_ms = None THEN @ + 1 ELSE @,
               !.lat_before = IF b_ms = None THEN @ ELSE Append(@, b_ms[1]),
               !.fail_after = IF a_ms = None THEN @ + 1 ELSE @,
               !.lat_after = IF a_ms = None THEN @ ELSE Append(@, a_ms[1]) ]

\* a metrics mapping is None or a function alias -> optional number
MetricAliases(m) == IF m = None THEN {} ELSE DOMAIN m[1]
MetricGet(m, alias) ==
    IF m = None \/ alias \notin DOMAIN m[1] THEN None ELSE m[1][alias]

\* Stats.add_prom (an empty mapping is falsy, like None)
StatsAddProm(s, mb, ma) ==
    LET aliases == MetricAliases(mb) \cup MetricAliases(ma)
        old(al) == Get(s.prom_series, al, [ before |-> << >>, after |-> << >> ])
        upd(al) ==
            [ before |-> IF MetricGet(mb, al) = None THEN old(al).before
                         ELSE Append(old(al).before, MetricGet(mb, al)[1]),
              after |-> IF MetricGet(ma, al) = None THEN old(al).after
                        ELSE Append(old(al).after, MetricGet(ma, al)[1]) ]
    IN  [ s EXCEPT !.prom_series =
            [ al \in DOMAIN @ \cup aliases |->
                IF al \in aliases THEN upd(al) ELSE @[al] ] ]


\* a value float() rejects (the text "na"); in the loop the values handed
\* to add_uptime are floats or None
NonNumeric == << "n", "a" >>

\* float(u) succeeds
Floatable(u) == u # None /\ u # NonNumeric

StatsAddUptime_overwrite(s, ub, ua) ==
    [ s EXCEPT !.up_missing_before = IF Floatable(ub) THEN @ ELSE @ + 1,
               !.up_before_vals = IF Floatable(ub) THEN << ub[1] >> ELSE @,
               !.up_missing_after = IF Floatable(ua) THEN @ ELSE @ + 1,
               !.up_after_vals = IF Floatable(ua) THEN << ua[1] >> ELSE @ ]

StatsAddUptime_append_null(s, ub, ua) ==
    [ s EXCEPT !.up_missing_before = IF Floatable(ub) THEN @ ELSE @ + 1,
               !.up_before_vals = IF ub = NonNumeric THEN @
                                  ELSE IF ub = None THEN Append(@, 0)
                                  ELSE Append(@, ub[1]),
               !.up_missing_after = IF Floatable(ua) THEN @ ELSE @ + 1,
               !.up_after_vals = IF ua = NonNumeric THEN @
                                 ELSE IF ua = None THEN Append(@, 0)
                                 ELSE Append(@, ua[1]) ]

\* Stats.add_uptime: None and a value float() rejects are counted missing
StatsAddUptime(s, ub, ua) ==
    [ s EXCEPT !.up_missing_before = IF Floatable(ub) THEN @ ELSE @ + 1,
               !.up_before_vals = IF Floatable(ub) THEN Append(@, ub[1])
                                  ELSE @,
               !.up_missing_after = IF Floatable(ua) THEN @ ELSE @ + 1,
               !.up_after_vals = IF Floatable(ua) THEN Append(@, ua[1])
                                 ELSE @ ]

\* a stats sample is [error, cpu_pct, mem_used_bytes], each optional
DockSample(err, cpu, mem) ==
    [ error |-> err, cpu_pct |-> cpu, mem_used_bytes |-> mem ]

\* Stats.add_docker_stats
StatsAddDocker(s, b, a) ==
    [ s EXCEPT
        !.docker_cpu_before =
            IF b.cpu_pct = None THEN @ ELSE Append(@, b.cpu_pct[1]),
        !.docker_cpu_after =
            IF a.cpu_pct = None THEN @ ELSE Append(@, a.cpu_pct[1]),
        !.docker_mem_before =
            IF b.mem_used_bytes = None THEN @ ELSE Append(@, b.mem_used_bytes[1]),
        !.docker_mem_after =
            IF a.mem_used_bytes = None THEN @ ELSE Append(@, a.mem_used_bytes[1]) ]

-----------------------------------------------------------------------------
(* Stats.summary.  Averages and deltas are exact rationals rounded the way *)
(* round(x, k) rounds them, held as the integer x * 10^k.                  *)

RECURSIVE Sum(_)
Sum(s) == IF s = << >> THEN 0 ELSE s[1] + Sum(Tail(s))

RECURSIVE Pow10(_)
Pow10(k) == IF k = 0 THEN 1 ELSE 10 * Pow10(k - 1)

\* num / den (den > 0) rounded to the nearest integer, ties to even
RoundHalfEven(num, den) ==
    LET q == num \div den
        r == num % den
    IN  IF 2 * r < den THEN q
        ELSE IF 2 * r > den THEN q + 1
        ELSE IF q % 2 = 0 THEN q ELSE q + 1

\* round(sum(l)/len(l), k), or None for an empty list
AvgRounded(l, k) ==
    IF l = << >> THEN None
    ELSE Some(RoundHalfEven(Sum(l) * Pow10(k), Len(l)))

DeltaPct_nozero(b, a) ==
    IF b = << >> \/ a = << >> THEN None
    ELSE IF Sum(b) = 0 THEN Some(0)
    ELSE LET num == (Sum(a) * Len(b) - Sum(b) * Len(a)) * 10000
             den == Len(a) * Sum(b)
         IN  Some(IF den > 0 THEN RoundHalfEven(num, den)
                  ELSE RoundHalfEven(0 - num, 0 - den))

\* round((a_avg - b_avg) / b_avg * 100.0, 2), in hundredths of a percent,
\* or None when an average is missing or b_avg is 0
DeltaPct(b, a) ==
    IF b = << >> \/ a = << >> \/ Sum(b) = 0 THEN None
    ELSE LET num == (Sum(a) * Len(b) - Sum(b) * Len(a)) * 10000
             den == Len(a) * Sum(b)
         IN  Some(IF den > 0 THEN RoundHalfEven(num, den)
                  ELSE RoundHalfEven(0 - num, 0 - den))

SeriesSummary(b, a, k) ==
    [ avg_before |-> AvgRounded(b, k), avg_after |-> AvgRounded(a, k),
      delta_pct |-> DeltaPct(b, a) ]

\* Stats.summary
Summary(s) ==
    [ total_actions |-> s.total,
      errors |-> s.errors,
      error_pct |-> IF s.total # 0
                    THEN RoundHalfEven(s.errors * 10000, s.total) ELSE 0,
      by_action |-> s.by_action,
      by_target |-> s.by_target,
      probe |-> [ avg_latency_ms_before |-> AvgRounded(s.lat_before, 2),
                  avg_latency_ms_after |-> AvgRounded(s.lat_after, 2),
                  failed_probes_before |-> s.fail_before,
                  failed_probes_after |-> s.fail_after ],
      prom |-> [ al \in DOMAIN s.prom_series |->
                   SeriesSummary(s.prom_series[al].before,
                                 s.prom_series[al].after, 6) ],
      uptime |-> [ avg_before |-> AvgRounded(s.up_before_vals, 6),
                   avg_after |-> AvgRounded(s.up_after_vals, 6),
                   delta_pct |-> DeltaPct(s.up_before_vals, s.up_after_vals),
                   missing_before |-> s.up_missing_before,
                   missing_after |-> s.up_missing_after ],
      docker |-> [ cpu_pct |-> SeriesSummary(s.docker_cpu_before,
                                             s.docker_cpu_after, 3),
                   mem_used_bytes |-> SeriesSummary(s.docker_mem_before,
                                                    s.docker_mem_after, 1) ] ]

-----------------------------------------------------------------------------
(* The fault actions.                                                      *)

Catalog == { "pause", "restart", "kill_restart", "cpu_quota", "mem_limit",
             "cpu_hog", "memory_hog", "disk_fill", "metrics_block" }

\* port_map.get(name)
PortOf(name) ==
    CASE name = "testapp_gateway" -> Some(5000)
      [] name = "testapp_catalog" -> Some(5001)
      [] name = "testapp_cart" -> Some(5002)
      [] name = "testapp_payment" -> Some(5003)
      [] OTHER -> None

\* prom_instance_label(name)
prom_instance_label(name) ==
    CASE name = "testapp_gateway" -> Some("gateway:5000")
      [] name = "testapp_catalog" -> Some("catalog:5001")
      [] name = "testapp_cart" -> Some("cart:5002")
      [] name = "testapp_payment" -> Some("payment:5003")
      [] OTHER -> None

\* the runtime command behind each step of an action
OpOf(label) ==
    CASE label \in { "create", "cleanup", "iptables_add", "fallback_patch",
                     "iptables_remove", "cpu_hog", "memory_hog" } -> "exec"
      [] label \in { "cpu_quota", "mem_limit" } -> "update"
      [] OTHER -> label

\* .get("error") of a result
ResultError(res) == IF "error" \in DOMAIN res THEN res.error ELSE None

NextCmd_fallback_last(action, tgt, done) ==
    CASE action = "pause" ->
           IF Len(done) = 0 THEN Some("pause")
           ELSE IF Len(done) = 1 THEN Some("unpause") ELSE None
      [] action = "kill_restart" ->
           IF Len(done) = 0 THEN Some("kill")
           ELSE IF Len(done) = 1 THEN Some("start") ELSE None
      [] action = "disk_fill" ->
           IF Len(done) = 0 THEN Some("create")
           ELSE IF Len(done) = 1 THEN Some("cleanup") ELSE None
      [] action = "metrics_block" ->
           IF PortOf(tgt) = None THEN None
           ELSE IF Len(done) = 0 THEN Some("iptables_add")
           ELSE IF done[Len(done)].cmd \in { "iptables_remove",
                                            "fallback_patch" } THEN None
           ELSE IF Len(done) = 1 /\ Truthy(done[1].error)
           THEN Some("fallback_patch")
           ELSE Some("iptables_remove")
      [] OTHER -> IF Len(done) = 0 THEN Some(action) ELSE None

NextCmd_restart(action, tgt, done) ==
    CASE action = "pause" ->
           IF Len(done) = 0 THEN Some("pause")
           ELSE IF Len(done) = 1 THEN Some("unpause") ELSE None
      [] action = "kill_restart" ->
           IF Len(done) = 0 THEN Some("kill")
           ELSE IF Len(done) = 1 THEN Some("restart") ELSE None
      [] action = "disk_fill" ->
           IF Len(done) = 0 THEN Some("create")
           ELSE IF Len(done) = 1 THEN Some("cleanup") ELSE None
      [] action = "metrics_block" ->
           IF PortOf(tgt) = None THEN None
           ELSE IF Len(done) = 0 THEN Some("iptables_add")
           ELSE IF done[Len(done)].cmd = "iptables_remove" THEN None
           ELSE IF Len(done) = 1 /\ Truthy(done[1].error)
           THEN Some("fallback_patch")
           ELSE Some("iptables_remove")
      [] OTHER -> IF Len(done) = 0 THEN Some(action) ELSE None

\* the next command an action issues once `done` holds the results of the
\* commands it has issued, or None when it has none left
NextCmd(action, tgt, done) ==
    CASE action = "pause" ->
           IF Len(done) = 0 THEN Some("pause")
           ELSE IF Len(done) = 1 THEN Some("unpause") ELSE None
      [] action = "kill_restart" ->
           IF Len(done) = 0 THEN Some("kill")
           ELSE IF Len(done) = 1 THEN Some("start") ELSE None
      [] action = "disk_fill" ->
           IF Len(done) = 0 THEN Some("create")
           ELSE IF Len(done) = 1 THEN Some("cleanup") ELSE None
      [] action = "metrics_block" ->
           IF PortOf(tgt) = None THEN None
           ELSE IF Len(done) = 0 THEN Some("iptables_add")
           ELSE IF done[Len(done)].cmd = "iptables_remove" THEN None
           ELSE IF Len(done) = 1 /\ Truthy(done[1].error)
           THEN Some("fallback_patch")
           ELSE Some("iptables_remove")
      [] OTHER -> IF Len(done) = 0 THEN Some(action) ELSE None

\* what the code sees of a command: its _run result
Seen(c) == [ cmd |-> c.cmd, error |-> c.error ]

\* the value an action returns once its commands are issued
FnResult(action, tgt, done) ==
    CASE action = "pause" ->
           [ pause |-> Seen(done[1]), unpause |-> Seen(done[2]) ]
      [] action = "kill_restart" ->
           [ kill |-> Seen(done[1]), start |-> Seen(done[2]) ]
      [] action = "disk_fill" ->
           [ create |-> Seen(done[1]), cleanup |-> Seen(done[2]) ]
      [] action = "metrics_block" ->
           IF PortOf(tgt) = None THEN [ error |-> Some("unknown port") ]
           ELSE [ iptables_add |-> Seen(done[1]),
                  fallback_patch |->
                      IF Len(done) = 3 THEN Some(Seen(done[2])) ELSE None,
                  iptables_remove |-> Seen(done[Len(done)]) ]
      [] OTHER -> Seen(done[1])

\* what the guarded action returns: {error: reason} when the check failed,
\* else the value fn returned
WrappedReturn(chk, ret) ==
    IF ~ chk.ok
    THEN [ error |-> IF Truthy(chk.reason) THEN chk.reason
                     ELSE Some("invalid target") ]
    ELSE ret

\* the action name of a startup record and of a focused event
RunLabel == IF mode = "focused" THEN fault ELSE "mixed"

-----------------------------------------------------------------------------
(* main(): the state after argument parsing.                               *)

refresh_every == 10

cfg == << mode, fault, configured_targets, duration, interval, do_probe >>
obs_b == << before_ms, dock_before, inst, up_before, metrics_before >>
obs_a == << after_ms, dock_after, up_after, metrics_after >>
chkv == << chk_site, chk_name, vi, check_result, listed_all, listed_run >>
callv == << fn_calls, fn_ret, raised, log_mark, cmds, result >>
iov == << log, lost >>
\* the inside of a target container: the filler file (named by the call
\* that wrote it) and the detached cleanups waiting in it
NoBox == [ file |-> None, timers |-> {} ]

unitv == << unit_in, unit_out, box >>

NoSample == DockSample(None, None, None)
NoResult == [ error |-> None ]

\* the variables of main() before its first statement
Locals ==
    /\ now = 0 /\ adverse = 0
    /\ end_time = 0 /\ iteration = 0
    /\ targets = << >> /\ target = "" /\ action_name = ""
    /\ chk_site = "" /\ chk_name = "" /\ vi = 1
    /\ check_result = CheckResult(TRUE, None)
    /\ listed_all = {} /\ listed_run = {}
    /\ fn_calls = 0 /\ fn_ret = NoResult /\ raised = FALSE
    /\ log_mark = << 0, 0 >>
    /\ cmds = << >> /\ result = NoResult
    /\ before_ms = None /\ dock_before = NoSample /\ inst = None
    /\ up_before = None /\ metrics_before = None
    /\ after_ms = None /\ dock_after = NoSample
    /\ up_after = None /\ metrics_after = None
    /\ stats = StatsInit /\ log = << >> /\ lost = 0 /\ summary = None
    /\ unit_in = None /\ unit_out = None /\ box = NoBox

\* the inventories a run starts from (the others are reached by changes)
InitialInventories ==
    { i \in [ ContainerNames -> { "absent", "stopped", "running" } ] :
        /\ i["worker"] # "absent"
        /\ i["Grafana-agent"] = "running" }

Init ==
    /\ mode \in { "focused", "mixed" }
    /\ fault \in IF mode = "focused" THEN Catalog \cup { "bogus" }
                 ELSE { "cpu_hog" }
    /\ configured_targets \in SeqsUpTo(ContainerNames, MaxConfigured)
    /\ duration \in -1 .. MaxDuration
    /\ interval \in 0 .. MaxInterval
    /\ do_probe \in BOOLEAN
    /\ inv \in InitialInventories
    /\ pc = "build"
    /\ Locals

\* a record is handed to write_log_line; a lost line is counted
WriteLog(rec, written) ==
    /\ ~ written => lost < MaxLost
    /\ log' = write_log_line(log, rec, written)
    /\ lost' = IF written THEN lost ELSE lost + 1

\* an outcome of the environment: the call works (ran), or it fails and
\* uses up one adverse event
Outcome(ran) ==
    /\ ran \in BOOLEAN
    /\ ~ ran => adverse < MaxAdverse
    /\ adverse' = IF ran THEN adverse ELSE adverse + 1

Mapped_deferred(f) == TRUE

\* build_focused_executor, line 578: mapping[fault] finds the fault name
Mapped(f) == f \in Catalog

\* lines 651-655: the executors are built and the deadline is set; an
\* unknown fault is a KeyError of build_focused_executor
Build ==
    /\ pc = "build"
    /\ IF mode = "focused" /\ ~ Mapped(fault)
       THEN pc' = "raised" /\ UNCHANGED end_time
       ELSE pc' = "pick" /\ end_time' = now + duration
    /\ UNCHANGED << cfg, unitv, inv, now, adverse, iteration, targets, target,
                    action_name, chkv, callv, obs_b, obs_a, stats, iov,
                    summary >>

\* lines 656-658: the initial target pool
PickInitial ==
    /\ pc = "pick"
    /\ \E ran \in BOOLEAN :
         /\ Outcome(ran)
         /\ targets' = pick_targets(list_containers(inv, FALSE, ran),
                                    configured_targets)
    /\ pc' = IF targets' # << >> THEN "loop"
             ELSE IF configured_targets # << >> THEN "startup_check"
             ELSE "early_summary"
    /\ UNCHANGED << cfg, unitv, inv, now, end_time, iteration, target,
                    action_name, chkv, callv, obs_b, obs_a, stats, iov,
                    summary >>

\* lines 659-660: the next configured target is checked
StartupCheck ==
    /\ pc = "startup_check"
    /\ IF vi > Len(configured_targets)
       THEN /\ pc' = "early_summary"
            /\ UNCHANGED << chk_site, chk_name, listed_all, listed_run >>
       ELSE /\ pc' = "chk_mon"
            /\ chk_site' = "startup"
            /\ chk_name' = configured_targets[vi]
            /\ listed_all' = {} /\ listed_run' = {}
    /\ UNCHANGED << cfg, unitv, inv, now, adverse, end_time, iteration, targets,
                    target, action_name, vi, check_result, callv, obs_b,
                    obs_a, stats, iov, summary >>

\* check_target, line 114
ChkMon ==
    /\ pc = "chk_mon"
    /\ IF is_monitoring_container(chk_name)
       THEN /\ check_result' = check_target(chk_name, {}, {})
            /\ pc' = "chk_ret"
       ELSE /\ pc' = "chk_exists"
            /\ UNCHANGED check_result
    /\ UNCHANGED << cfg, unitv, inv, now, adverse, end_time, iteration, targets,
                    target, action_name, chk_site, chk_name, vi, listed_all,
                    listed_run, callv, obs_b, obs_a, stats, iov, summary >>

\* check_target, line 116: container_exists reads `docker ps -a`
ChkExists ==
    /\ pc = "chk_exists"
    /\ \E ran \in BOOLEAN :
         /\ Outcome(ran)
         /\ listed_all' = list_containers(inv, TRUE, ran)
         /\ IF chk_name \notin listed_all'
            THEN /\ check_result' = check_target(chk_name, listed_all', {})
                 /\ pc' = "chk_ret"
            ELSE /\ pc' = "chk_running"
                 /\ UNCHANGED check_result
    /\ UNCHANGED << cfg, unitv, inv, now, end_time, iteration, targets,
                    target, action_name, chk_site, chk_name, vi, listed_run,
                    callv, obs_b, obs_a, stats, iov, summary >>

\* check_target, lines 118-120: is_running_container reads `docker ps`
ChkRunning ==
    /\ pc = "chk_running"
    /\ \E ran \in BOOLEAN :
         /\ Outcome(ran)
         /\ listed_run' = list_containers(inv, FALSE, ran)
         /\ check_result' = check_target(chk_name, listed_all, listed_run')
    /\ pc' = "chk_ret"
    /\ UNCHANGED << cfg, unitv, inv, now, end_time, iteration, targets,
                    target, action_name, chk_site, chk_name, vi, listed_all,
                    callv, obs_b, obs_a, stats, iov, summary >>

\* lines 661-662: a violation is logged for a configured target that fails
StartupViolation ==
    /\ pc = "chk_ret" /\ chk_site = "startup"
    /\ IF check_result.ok
       THEN UNCHANGED iov
       ELSE \E written \in BOOLEAN :
              WriteLog(ViolationRecord(RunLabel, chk_name,
                        IF Truthy(check_result.reason)
                        THEN check_result.reason[1] ELSE "ineligible target"),
                    written)
    /\ vi' = vi + 1
    /\ pc' = "startup_check"
    /\ UNCHANGED << cfg, unitv, inv, now, adverse, end_time, iteration, targets, target,
                    action_name, chk_site, chk_name, check_result,
                    listed_all, listed_run, callv, obs_b, obs_a, stats,
                    summary >>

NoEligible == "no eligible endpoints available"
NotEligible == "configured endpoints not eligible"

summary_reason_swapped(eligible_running) ==
    IF eligible_running = {} THEN NotEligible ELSE NoEligible

\* line 665: the reason of the startup exit
summary_reason(eligible_running) ==
    IF eligible_running = {} THEN NoEligible ELSE NotEligible

\* lines 663-675: the startup exit with its reason
EarlySummary ==
    /\ pc = "early_summary"
    /\ \E ran \in BOOLEAN, written \in BOOLEAN :
         /\ Outcome(ran)
         /\ LET eligible_running ==
                  { n \in list_containers(inv, FALSE, ran) :
                        ~ is_monitoring_container(n) }
            IN  WriteLog(StartupSummaryRecord(RunLabel, eligible_running,
                             summary_reason(eligible_running)), written)
    /\ pc' = "done"
    /\ UNCHANGED << cfg, unitv, inv, now, end_time, iteration, targets, target,
                    action_name, chkv, callv, obs_b, obs_a, stats, summary >>

-----------------------------------------------------------------------------
(* main(): the loop.                                                       *)

Max(a, b) == IF a >= b THEN a ELSE b

\* the iterations of a long run: enough to reach the second refresh
MaxIterLong == 11

IterCap ==
    IF mode = "mixed" THEN MaxIterMixed
    ELSE IF duration >= MaxIterLong THEN MaxIterLong
    ELSE MaxIter

RefreshDue_always(i) == TRUE

\* line 679: iteration % refresh_every == 0
RefreshDue(i) == i % refresh_every = 0

LoopCondition_inclusive(t, deadline) == t <= deadline

\* line 678: while time.time() < end_time
LoopCondition(t, deadline) == t < deadline

\* line 678-683: the deadline is read, and every refresh_every-th
\* iteration the pool is recomputed.  The clock has moved on by any amount
\* since it was last read; a run of IterCap iterations has used its time up.
LoopTop ==
    /\ pc = "loop"
    /\ \E t \in now .. Max(now, end_time) :
         /\ iteration >= IterCap => t >= end_time
         /\ now' = t
         /\ IF ~ LoopCondition(t, end_time)
            THEN pc' = "finalize" /\ UNCHANGED << targets, adverse >>
            ELSE IF RefreshDue(iteration)
            THEN \E ran \in BOOLEAN :
                   /\ Outcome(ran)
                   /\ targets' =
                        pick_targets(list_containers(inv, FALSE, ran),
                                     configured_targets)
                   /\ pc' = IF targets' = << >> THEN "finalize" ELSE "select"
            ELSE pc' = "select" /\ UNCHANGED << targets, adverse >>
    /\ UNCHANGED << cfg, unitv, inv, end_time, iteration, target, action_name,
                    chkv, callv, obs_b, obs_a, stats, iov, summary >>

\* line 684: random.choice(targets)
SelectTarget ==
    /\ pc = "select"
    /\ \E tg \in Range(targets) : target' = tg
    /\ pc' = "obs_before"
    /\ UNCHANGED << cfg, unitv, inv, now, adverse, end_time, iteration, targets,
                    action_name, chkv, callv, obs_b, obs_a, stats, iov,
                    summary >>

\* get_prom_queries_for_target: the aliases queried for a target
Aliases(tg) ==
    { "cpu_seconds_per_s", "rss_bytes" }
    \cup (IF tg = "testapp_cart" THEN { "throughput_rps", "amount_p90" }
          ELSE IF tg = "testapp_payment"
          THEN { "throughput_rps", "fail_rps", "amount_p90" } ELSE {})

\* the samples of one observation that can fail on their own (of the
\* metric queries, the one for rss_bytes)
SampleKinds(tg) ==
    { "stats", "mem" }
    \cup (IF PortOf(tg) = None THEN {}
          ELSE { "discover", "up", "rss_bytes" }
               \cup (IF do_probe THEN { "probe" } ELSE {}))

\* the sets of samples that fail in one observation
Failing(tg) ==
    { F \in SUBSET SampleKinds(tg) : Cardinality(F) <= MaxAdverse - adverse }

\* probe_target: the latency on HTTP 200, else None
probe_target(tg, F) ==
    IF PortOf(tg) = None THEN None
    ELSE IF inv[tg] = "running" /\ "probe" \notin F THEN Some(5) ELSE None

\* docker_stats_once
docker_stats_once(tg, F) ==
    IF ~ DockerAccepts("stats", inv[tg]) \/ "stats" \in F
    THEN DockSample(Some("no output"), None, None)
    ELSE DockSample(None, Some(10),
                    IF "mem" \in F THEN None ELSE Some(100))

\* discover_instance_for_target(...) or prom_instance_label(target)
instance_for(tg, F) ==
    LET found == IF PortOf(tg) = None \/ "discover" \in F THEN None
                 ELSE prom_instance_label(tg)
    IN  IF found # None THEN found ELSE prom_instance_label(tg)

\* the `up` query of lines 691-695 and 722-726
up_query(tg, F) ==
    IF "up" \in F THEN None
    ELSE Some(IF inv[tg] = "running" THEN 1 ELSE 0)

\* eval_prom_queries: a failed query gives None for its alias
eval_prom_queries(tg, F) ==
    [ al \in Aliases(tg) |-> IF al \in F THEN None ELSE Some(1) ]

\* lines 685-698: the observations before the action
ObserveBefore ==
    /\ pc = "obs_before"
    /\ \E F \in Failing(target) :
         /\ adverse' = adverse + Cardinality(F)
         /\ before_ms' = IF do_probe THEN probe_target(target, F) ELSE None
         /\ dock_before' = docker_stats_once(target, F)
         /\ inst' = instance_for(target, F)
         /\ up_before' = IF inst' # None THEN up_query(target, F) ELSE None
         /\ metrics_before' =
              IF inst' # None THEN Some(eval_prom_queries(target, F))
              ELSE None
    /\ pc' = "dispatch"
    /\ UNCHANGED << cfg, unitv, inv, now, end_time, iteration, targets, target,
                    action_name, chkv, callv, obs_a, stats, iov, summary >>

ActionChoices_catalog(m, f) == Catalog

\* lines 701 and 708: the executor bound to the configured fault, or
\* random.choice over the items of the mixed catalog
ActionChoices(m, f) == IF m = "focused" THEN { f } ELSE Catalog

\* lines 699-701 and 708-710: the action is chosen and the guarded action
\* is called (require_valid_target._wrapped, line 134)
Dispatch ==
    /\ pc = "dispatch"
    /\ \E a \in ActionChoices(mode, fault) : action_name' = a
    /\ chk_site' = "guard"
    /\ chk_name' = target
    /\ listed_all' = {} /\ listed_run' = {}
    /\ fn_calls' = 0 /\ fn_ret' = NoResult /\ raised' = FALSE
    /\ log_mark' = << Len(log), lost >>
    /\ cmds' = << >>
    /\ pc' = "chk_mon"
    /\ UNCHANGED << cfg, unitv, inv, now, adverse, end_time, iteration, targets,
                    target, vi, check_result, result, obs_b, obs_a,
                    stats, iov, summary >>

\* fn.__name__ of the function registered under a catalog name
FnName(a) ==
    CASE a = "pause" -> "pause_unpause"
      [] a = "restart" -> "restart_container"
      [] a \in { "kill_restart", "disk_fill", "metrics_block" } -> a
      [] OTHER -> "<lambda>"

GuardCalls_always(chk) == TRUE

\* require_valid_target._wrapped, line 135: fn is called iff the check passed
GuardCalls(chk) == chk.ok

\* require_valid_target._wrapped, lines 135-138: a failed check is logged
\* and returned as {error: reason}; else fn is called
GuardReturn ==
    /\ pc = "chk_ret" /\ chk_site = "guard"
    /\ IF GuardCalls(check_result)
       THEN /\ fn_calls' = fn_calls + 1
            /\ pc' = "act"
            /\ UNCHANGED << iov, result >>
       ELSE /\ \E written \in BOOLEAN :
                 WriteLog(ViolationRecord(FnName(action_name), chk_name,
                           IF Truthy(check_result.reason)
                           THEN check_result.reason[1] ELSE "invalid target"),
                       written)
            /\ result' = WrappedReturn(check_result, fn_ret)
            /\ pc' = "record_event"
            /\ UNCHANGED fn_calls
    /\ UNCHANGED << cfg, unitv, inv, now, adverse, end_time, iteration, targets,
                    target, action_name, chkv, fn_ret, raised, log_mark, cmds, obs_b,
                    obs_a, stats, summary >>

\* the action raises before it has issued a command
ActRaise ==
    /\ pc = "act" /\ cmds = << >>
    /\ adverse < MaxAdverse
    /\ adverse' = adverse + 1
    /\ \E msg \in { "", "boom" } : result' = [ error |-> Some(msg) ]
    /\ raised' = TRUE
    /\ pc' = "record_event"
    /\ UNCHANGED << cfg, unitv, inv, now, end_time, iteration, targets, target,
                    action_name, chkv, fn_calls, fn_ret, log_mark, cmds,
                    obs_b, obs_a, stats, iov, summary >>

\* the action issues its next command to the runtime
ActCommand ==
    /\ pc = "act"
    /\ NextCmd(action_name, target, cmds) # None
    /\ \E ran \in BOOLEAN :
         /\ Outcome(ran)
         /\ LET label == NextCmd(action_name, target, cmds)[1]
                st == inv[target]
                r == RunResult(OpOf(label), st, ran)
            IN  /\ cmds' = Append(cmds, [ cmd |-> label, op |-> OpOf(label),
                                           st |-> st, error |-> r.error ])
                /\ inv' = IF r.error = None
                          THEN [ inv EXCEPT ![target] =
                                   DockerEffect(OpOf(label), st) ]
                          ELSE inv
    /\ UNCHANGED << cfg, unitv, now, end_time, iteration, targets, target,
                    action_name, chkv, fn_calls, fn_ret, raised, log_mark,
                    result, pc, obs_b, obs_a, stats, iov, summary >>

\* the action returns, and the guarded action returns its value
ActReturn ==
    /\ pc = "act"
    /\ NextCmd(action_name, target, cmds) = None
    /\ fn_ret' = FnResult(action_name, target, cmds)
    /\ result' = WrappedReturn(check_result, fn_ret')
    /\ pc' = "record_event"
    /\ UNCHANGED << cfg, unitv, inv, now, adverse, end_time, iteration, targets,
                    target, action_name, chkv, fn_calls, raised, log_mark,
                    cmds, obs_b, obs_a, stats, iov, summary >>

NextStep_blocking(p) ==
    CASE p = "record_event" -> "obs_after"
      [] p = "obs_after" -> "dock_after"
      [] p = "dock_after" -> "blocked"

NextStep_observe_first(p) ==
    CASE p = "obs_after" -> "record_event"
      [] p = "record_event" -> "dock_after"
      [] p = "dock_after" -> "sleep"

\* lines 704-739 are straight-line code: the event is written and counted
\* (704-717), the after-observations are taken (718-731), the stats sample
\* is taken and the update written (732-738), the loop sleeps (739)
NextStep(p) ==
    CASE p = "record_event" -> "obs_after"
      [] p = "obs_after" -> "dock_after"
      [] p = "dock_after" -> "sleep"

ResultOk_nonnull(res) == ResultError(res) = None

\* line 716: ok = not bool(result.get("error"))
ResultOk(res) == ~ Truthy(ResultError(res))

\* lines 704-706 / 713-715 and 716-717: the event is written and counted
RecordEvent ==
    /\ pc = "record_event"
    /\ \E written \in BOOLEAN :
         WriteLog(EventRecord(action_name, target, result, up_before,
                              metrics_before), written)
    /\ stats' = StatsAdd(stats, action_name, target, ResultOk(result))
    /\ pc' = NextStep(pc)
    /\ UNCHANGED << cfg, unitv, inv, now, adverse, end_time, iteration, targets, target,
                    action_name, chkv, callv, obs_b, obs_a, summary >>

\* lines 718-731: the probe, uptime and metric samples after the action,
\* then add_prom and add_uptime
ObserveAfter ==
    /\ pc = "obs_after"
    /\ \E F \in Failing(target) :
         /\ F \subseteq SampleKinds(target) \ { "stats", "mem", "discover" }
         /\ adverse' = adverse + Cardinality(F)
         /\ after_ms' = IF do_probe THEN probe_target(target, F) ELSE None
         /\ up_after' = IF inst # None THEN up_query(target, F) ELSE None
         /\ metrics_after' =
              IF inst # None THEN Some(eval_prom_queries(target, F))
              ELSE None
    /\ stats' = StatsAddUptime(
                    StatsAddProm(stats, metrics_before, metrics_after'),
                    up_before, up_after')
    /\ pc' = NextStep(pc)
    /\ UNCHANGED << cfg, unitv, inv, now, end_time, iteration, targets, target,
                    action_name, chkv, callv, obs_b, dock_after, iov,
                    summary >>

\* lines 732-738: the stats sample after the action, the update record,
\* add_probe and add_docker_stats
RecordUpdate ==
    /\ pc = "dock_after"
    /\ \E F \in Failing(target), written \in BOOLEAN :
         /\ F \subseteq { "stats", "mem" }
         /\ adverse' = adverse + Cardinality(F)
         /\ dock_after' = docker_stats_once(target, F)
         /\ WriteLog(UpdateRecord(action_name, target,
                   [ before |-> before_ms, after |-> after_ms ],
                   [ before |-> up_before, after |-> up_after ],
                   [ before |-> metrics_before, after |-> metrics_after ],
                   [ before |-> dock_before, after |-> dock_after' ]),
               written)
    /\ stats' = StatsAddDocker(
                    IF do_probe THEN StatsAddProbe(stats, before_ms, after_ms)
                    ELSE stats,
                    dock_before, dock_after')
    /\ iteration' = iteration + 1
    /\ pc' = NextStep(pc)
    /\ UNCHANGED << cfg, unitv, inv, now, end_time, targets, target, action_name,
                    chkv, callv, obs_b, after_ms, up_after, metrics_after,
                    summary >>

\* line 739: time.sleep(interval)
Sleep ==
    /\ pc = "sleep"
    /\ now' = now + interval
    /\ pc' = "loop"
    /\ UNCHANGED << cfg, unitv, inv, adverse, end_time, iteration, targets, target,
                    action_name, chkv, callv, obs_b, obs_a, stats, iov,
                    summary >>

\* lines 740-744: the summary is computed and logged
Finalize ==
    /\ pc = "finalize"
    /\ summary' = Some(Summary(stats))
    /\ \E written \in BOOLEAN :
         WriteLog(SummaryRecord(Summary(stats)), written)
    /\ pc' = "done"
    /\ UNCHANGED << cfg, unitv, inv, now, adverse, end_time, iteration, targets, target,
                    action_name, chkv, callv, obs_b, obs_a, stats >>

\* the containers whose status the next step of the agent reads or changes
Read ==
    CASE pc \in { "loop", "early_summary" } -> ContainerNames
      [] pc \in { "chk_exists", "chk_running" } -> { chk_name }
      [] pc \in { "obs_before", "act", "obs_after", "dock_after" } -> { target }
      [] OTHER -> {}

\* the environment: a container stops, starts, is removed or created.  A
\* change at any moment is a change just before the next step that reads
\* the container's status, so it is taken there.
EnvChange ==
    /\ adverse < MaxAdverse
    /\ adverse' = adverse + 1
    /\ \E n \in Read, st \in { "absent", "stopped", "running" } :
         /\ st # inv[n]
         /\ inv' = [ inv EXCEPT ![n] = st ]
    /\ UNCHANGED << cfg, unitv, now, pc, end_time, iteration, targets, target,
                    action_name, chkv, callv, obs_b, obs_a, stats, iov,
                    summary >>

Next ==
    \/ Build \/ PickInitial \/ StartupCheck
    \/ ChkMon \/ ChkExists \/ ChkRunning
    \/ StartupViolation \/ EarlySummary
    \/ LoopTop \/ SelectTarget \/ ObserveBefore \/ Dispatch
    \/ GuardReturn \/ ActRaise \/ ActCommand \/ ActReturn
    \/ RecordEvent \/ ObserveAfter \/ RecordUpdate \/ Sleep \/ Finalize
    \/ EnvChange

Spec == Init /\ [][Next]_vars

-----------------------------------------------------------------------------
(* The eligibility guard (require_valid_target).                           *)

\* the violation record a failed guard hands to the log
GuardViolation ==
    ViolationRecord(FnName(action_name), target, check_result.reason[1])

\* the guarded call of this iteration is over (returned or raised)
GuardedCallOver == pc = "record_event" /\ chk_site = "guard"

\* C1, as first stated: when check_target fails with reason r the guarded
\* call never invokes fn, appends exactly one violation record (action,
\* target, r) to the log and returns {error: r}; when it passes, fn is
\* invoked exactly once and its return value is returned unchanged, with
\* no violation logged.
C1_Original ==
    GuardedCallOver =>
      IF ~ check_result.ok
      THEN /\ fn_calls = 0 /\ cmds = << >>
           /\ Len(log) = log_mark[1] + 1
           /\ log[Len(log)] = GuardViolation
           /\ result = [ error |-> check_result.reason ]
      ELSE /\ fn_calls = 1
           /\ Len(log) = log_mark[1]
           /\ ~ raised => result = fn_ret

\* C1, amended: when check_target fails with reason r the guarded call
\* never invokes fn, hands exactly one violation record (action, target, r)
\* to the log writer, which appends it unless the write fails (the failure
\* is swallowed and nothing is appended), and returns {error: r}; when it
\* passes, fn is invoked exactly once and its return value is returned
\* unchanged, with no violation logged.
C1_GuardContract ==
    GuardedCallOver =>
      IF ~ check_result.ok
      THEN /\ fn_calls = 0 /\ cmds = << >>
           /\ \/ /\ lost = log_mark[2]
                 /\ Len(log) = log_mark[1] + 1
                 /\ log[Len(log)] = GuardViolation
              \/ /\ lost = log_mark[2] + 1
                 /\ Len(log) = log_mark[1]
           /\ result = [ error |-> check_result.reason ]
      ELSE /\ fn_calls = 1
           /\ Len(log) = log_mark[1] /\ lost = log_mark[2]
           /\ ~ raised => result = fn_ret

\* a guarded call on a target that failed the check has returned, and its
\* violation is in the log
C1_Witness ==
    /\ GuardedCallOver
    /\ ~ check_result.ok
    /\ fn_calls = 0
    /\ Len(log) = log_mark[1] + 1
    /\ log[Len(log)] = GuardViolation
    /\ result = [ error |-> Some(ReasonNotRunning) ]

\* C2: with an inventory that may change between any two steps, the first
\* runtime command of a guarded action (the one issued right after the
\* guard's two inventory reads) is never issued against a target that is a
\* monitoring container or that `docker ps` would not list at the moment
\* the command is issued.
C2_CheckStillHolds ==
    cmds # << >> =>
      /\ ~ is_monitoring_container(target)
      /\ Listed(cmds[1].st, FALSE)

-----------------------------------------------------------------------------
(* check_target and pick_targets on their own: every inventory of the      *)
(* names of UnitNames, every name and every configured list, one call.     *)

InitEligibility ==
    /\ mode = "mixed" /\ fault = "cpu_hog"
    /\ configured_targets \in SeqsUpTo(UnitNames, MaxConfigured)
    /\ duration = 0 /\ interval = 0 /\ do_probe = FALSE
    /\ inv \in [ UnitNames -> Statuses ]
    /\ pc = "unit"
    /\ Locals

\* Monitor.check_target(name): container_exists and is_running_container
\* each read their listing
CallCheckTarget ==
    /\ pc = "unit"
    /\ \E name \in UnitNames, ranA \in BOOLEAN, ranR \in BOOLEAN :
         /\ chk_name' = name
         /\ listed_all' = list_containers(inv, TRUE, ranA)
         /\ listed_run' = list_containers(inv, FALSE, ranR)
         /\ check_result' = check_target(name, listed_all', listed_run')
    /\ pc' = "unit_checked"
    /\ UNCHANGED << cfg, unitv, inv, now, adverse, end_time, iteration, targets,
                    target, action_name, chk_site, vi, callv, obs_b, obs_a,
                    stats, iov, summary >>

\* pick_targets(configured)
CallPickTargets ==
    /\ pc = "unit"
    /\ \E ran \in BOOLEAN :
         /\ listed_run' = list_containers(inv, FALSE, ran)
         /\ targets' = pick_targets(listed_run', configured_targets)
    /\ pc' = "unit_picked"
    /\ UNCHANGED << cfg, unitv, inv, now, adverse, end_time, iteration, target,
                    action_name, chk_site, chk_name, vi, check_result,
                    listed_all, callv, obs_b, obs_a, stats, iov, summary >>

NextEligibility == CallCheckTarget \/ CallPickTargets

SpecEligibility == InitEligibility /\ [][NextEligibility]_vars

\* C3: check_target decides by the first failing condition, in the order
\* monitoring name, absent from the full inventory, absent from the running
\* inventory: a monitoring name is refused as excluded whether or not it
\* exists or runs; otherwise a name the full listing lacks is "not found";
\* otherwise a name the running listing lacks is "not running"; otherwise
\* the result is (true, null), and it is (true, null) only if all three
\* conditions pass.
C3_CheckOrder ==
    pc = "unit_checked" =>
      LET mon == is_monitoring_container(chk_name)
          exists == chk_name \in listed_all
          running == chk_name \in listed_run
      IN  /\ mon => check_result = CheckResult(FALSE, Some(ReasonMonitoring))
          /\ ~ mon /\ ~ exists =>
                check_result = CheckResult(FALSE, Some(ReasonNotFound))
          /\ ~ mon /\ exists /\ ~ running =>
                check_result = CheckResult(FALSE, Some(ReasonNotRunning))
          /\ ~ mon /\ exists /\ running =>
                check_result = CheckResult(TRUE, None)
          /\ check_result.ok => ~ mon /\ exists /\ running
          /\ check_result.ok <=> check_result.reason = None

\* a monitoring container that does not exist is refused as excluded, not
\* as missing
C3_Witness ==
    /\ pc = "unit_checked"
    /\ chk_name = "Grafana-agent"
    /\ inv[chk_name] = "absent"
    /\ chk_name \notin listed_all
    /\ check_result = CheckResult(FALSE, Some(ReasonMonitoring))

\* C4: pick_targets([]) returns exactly the listed (running) names that
\* are not monitoring names, each once; pick_targets(C) with C non-empty
\* returns exactly the members of C that are listed and are not monitoring
\* names, in the order of C (so [x] gives [x] or []); no unlisted name and
\* no monitoring name is ever returned.
C4_PickTargets ==
    pc = "unit_picked" =>
      LET wanted(n) == n \in listed_run /\ ~ is_monitoring_container(n)
      IN  /\ \A n \in Range(targets) : wanted(n)
          /\ configured_targets = << >> =>
               /\ \A n \in UnitNames : wanted(n) => n \in Range(targets)
               /\ Len(targets) = Cardinality(Range(targets))
          /\ configured_targets # << >> =>
               /\ \A n \in UnitNames :
                    n \in Range(targets) <=>
                      n \in Range(configured_targets) /\ wanted(n)
               /\ targets = SelectSeq(configured_targets, wanted)
          /\ Len(configured_targets) = 1 =>
               targets = IF wanted(configured_targets[1])
                         THEN configured_targets ELSE << >>

\* with nothing configured, a running monitoring container is left out of a
\* non-empty pool
C4_Witness ==
    /\ pc = "unit_picked"
    /\ configured_targets = << >>
    /\ { "testapp_prometheus", "Grafana-agent" } \subseteq listed_run
    /\ Range(targets) = { "testapp_cart", "worker" }

-----------------------------------------------------------------------------
(* The loop: exceptions, counting and the layout of the log.               *)

\* the event record of the current iteration
ThisEvent ==
    EventRecord(action_name, target, result, up_before, metrics_before)

\* C5: when the invoked action raises, the loop turns the exception into
\* {error: message}, still hands the iteration's event to the log, still
\* updates the statistics, counting the action as an error, and goes on
\* with the iteration (the observations, the update record, the next
\* pass).
C5_RaiseCounted ==
    [][ pc = "record_event" /\ raised =>
          /\ DOMAIN result = { "error" } /\ result.error # None
          /\ log' \in { log, Append(log, ThisEvent) }
          /\ stats'.total = stats.total + 1
          /\ stats'.errors = stats.errors + 1
          /\ pc' = "obs_after" ]_vars

\* C6: every iteration adds exactly 1 to `total` (and nothing else does),
\* and adds 1 to `errors` iff the top-level result of the action carries
\* an `error` that is neither null nor empty; an error inside a sub-result
\* of a composite result adds nothing by itself.
C6_Counting ==
    /\ [] ( stats.total = iteration
              + (IF pc \in { "obs_after", "dock_after" } THEN 1 ELSE 0) )
    /\ [][ LET e == IF "error" \in DOMAIN result THEN result.error ELSE None
               failed == e # None /\ e # Some("")
           IN  IF pc = "record_event"
               THEN /\ stats'.total = stats.total + 1
                    /\ stats'.errors = stats.errors + (IF failed THEN 1 ELSE 0)
               ELSE /\ stats'.total = stats.total
                    /\ stats'.errors = stats.errors ]_vars

\* a pause whose pause command failed has been counted, and not as an error
C6_Witness ==
    /\ pc = "obs_after"
    /\ action_name = "pause"
    /\ "error" \notin DOMAIN result
    /\ result.pause.error # None
    /\ stats.total = 1 /\ stats.errors = 0

\* C7: in a finished run in which no guard refused a target and no log
\* write failed, the log holds, for each of the N executed iterations in
\* order, the action event and then the update record, both naming the
\* same action and target, followed by exactly one summary record whose
\* total_actions is N.
C7_LogLayout ==
    ( /\ pc = "done" /\ summary # None
      /\ lost = 0
      /\ \A i \in DOMAIN log : log[i].kind # "violation" )
    => /\ Len(log) = 2 * iteration + 1
       /\ \A k \in 1 .. iteration :
            /\ log[2 * k - 1].kind = "event"
            /\ log[2 * k].kind = "update"
            /\ log[2 * k].action = log[2 * k - 1].action
            /\ log[2 * k].target = log[2 * k - 1].target
       /\ log[Len(log)].kind = "summary"
       /\ log[Len(log)].summary.total_actions = iteration
       /\ log[Len(log)].summary = summary[1]

\* a run of two iterations has finished with its five records
C7_Witness ==
    /\ pc = "done" /\ summary # None
    /\ lost = 0
    /\ iteration = 2
    /\ Len(log) = 5
    /\ log[1].kind = "event" /\ log[2].kind = "update"
    /\ log[5].summary.total_actions = 2

-----------------------------------------------------------------------------
(* Runs without an iteration.                                              *)

NoSeries == [ avg_before |-> None, avg_after |-> None, delta_pct |-> None ]

\* the summary of a run without an action
ZeroSummary ==
    [ total_actions |-> 0, errors |-> 0, error_pct |-> 0,
      by_action |-> EmptyMap, by_target |-> EmptyMap,
      probe |-> [ avg_latency_ms_before |-> None,
                  avg_latency_ms_after |-> None,
                  failed_probes_before |-> 0, failed_probes_after |-> 0 ],
      prom |-> EmptyMap,
      uptime |-> [ avg_before |-> None, avg_after |-> None,
                   delta_pct |-> None,
                   missing_before |-> 0, missing_after |-> 0 ],
      docker |-> [ cpu_pct |-> NoSeries, mem_used_bytes |-> NoSeries ] ]

\* no target was selected, nothing observed, no action run, nothing counted
NothingDone ==
    /\ iteration = 0 /\ target = "" /\ action_name = ""
    /\ fn_calls = 0 /\ cmds = << >>
    /\ dock_before = NoSample /\ dock_after = NoSample
    /\ metrics_before = None /\ metrics_after = None
    /\ stats = StatsInit
    /\ \A i \in DOMAIN log : log[i].kind \notin { "event", "update" }

\* the run passed the startup check with a pool and a duration <= 0
ZeroDurationRun ==
    /\ duration <= 0
    /\ targets # << >>
    /\ pc \notin { "build", "pick" }

\* C8, as first stated: with duration <= 0 and a non-empty initial pool
\* the loop body runs zero times and the run goes straight to FINALIZE,
\* whose summary record (total_actions 0, errors 0, error rate 0, empty
\* counts, every average and delta null) is in the log at the end.
C8_Original ==
    ZeroDurationRun =>
      /\ pc \in { "loop", "finalize", "done" }
      /\ NothingDone
      /\ pc = "done" => /\ summary = Some(ZeroSummary)
                        /\ log = << SummaryRecord(ZeroSummary) >>

\* C8, amended: with duration <= 0 and a non-empty initial pool the loop
\* body runs zero times and the run goes straight to FINALIZE, which
\* computes the summary with total_actions 0, errors 0, error rate 0, empty
\* counts and every average and delta null, and hands it to the log
\* writer: it is the only record of the log, or the log is empty when that
\* write failed.
C8_ZeroDuration ==
    ZeroDurationRun =>
      /\ pc \in { "loop", "finalize", "done" }
      /\ NothingDone
      /\ pc = "done" =>
           /\ summary = Some(ZeroSummary)
           /\ \/ lost = 0 /\ log = << SummaryRecord(ZeroSummary) >>
              \/ lost = 1 /\ log = << >>

\* a run with duration <= 0 has ended with its summary as the only record
C8_Witness ==
    /\ ZeroDurationRun
    /\ pc = "done"
    /\ iteration = 0
    /\ log = << SummaryRecord(ZeroSummary) >>

\* the states of a run whose initial pool was empty
EarlyPath ==
    \/ pc \in { "startup_check", "early_summary" }
    \/ pc \in { "chk_mon", "chk_exists", "chk_running", "chk_ret" }
         /\ chk_site = "startup"
    \/ pc = "done" /\ summary = None

\* the run has left through the startup exit
EarlyExit == pc = "done" /\ summary = None

\* the running containers that are not monitoring containers
EligibleRunning ==
    { n \in DOMAIN inv : Listed(inv[n], FALSE) /\ ~ is_monitoring_container(n) }

\* the records of the log but the last
Earlier == SubSeq(log, 1, Len(log) - 1)

\* a violation record of the startup check of a configured target
IsStartupViolation(rec) ==
    /\ rec.kind = "violation"
    /\ rec.action = RunLabel
    /\ rec.target \in Range(configured_targets)
    /\ rec.violation \in IF is_monitoring_container(rec.target)
                         THEN { ReasonMonitoring }
                         ELSE { ReasonNotFound, ReasonNotRunning }

\* C9, as first stated: an empty initial pool ends the run with no fault
\* action and one summary record appended last, whose message is "no
\* eligible endpoints available" exactly when no running non-monitoring
\* container exists and "configured endpoints not eligible" exactly when
\* such containers exist and no configured target is among them, after one
\* violation record for each configured target that fails check_target.
C9_Original ==
    EarlyExit =>
      /\ NothingDone
      /\ log # << >>
      /\ log[Len(log)].kind = "startup_summary"
      /\ log[Len(log)].message = NoEligible <=> EligibleRunning = {}
      /\ log[Len(log)].message = NotEligible <=>
           /\ EligibleRunning # {}
           /\ Range(configured_targets) \cap EligibleRunning = {}
      /\ \A i \in DOMAIN Earlier : IsStartupViolation(Earlier[i])

\* C9, amended: an empty initial pool keeps the run out of the loop and
\* ends it with no fault action.  The run hands one summary record with a
\* reason message to the log writer, which appends it last unless the write
\* fails.  The message is "no eligible endpoints available" exactly when the
\* listing of running containers read for the record (empty when that
\* listing fails) holds no non-monitoring container, else "configured
\* endpoints not eligible", whether or not a configured target runs by
\* then.  Before it, a violation record is handed to the writer for each
\* configured target that fails check_target.  In a run with no inventory
\* change, failed listing or failed write, the message is the first one
\* exactly when no running non-monitoring container exists, the second one
\* exactly when such containers exist and no configured target is among
\* them, and every configured target has its violation record, in order.
C9_StartupExit ==
    /\ [][ pc = "pick" /\ targets' = << >> => EarlyPath' ]_vars
    /\ [][ EarlyPath => EarlyPath' ]_vars
    /\ [] ( EarlyPath => NothingDone /\ targets = << >> )
    /\ [] ( EarlyExit =>
              LET n == Len(log)
                  hasSummary == n > 0 /\ log[n].kind = "startup_summary"
                  violations == IF hasSummary THEN Earlier ELSE log
              IN  /\ \A i \in DOMAIN violations :
                        IsStartupViolation(violations[i])
                  /\ Len(violations) <= Len(configured_targets)
                  /\ lost = 0 => hasSummary
                  /\ hasSummary =>
                       /\ log[n].action = RunLabel
                       /\ log[n].message =
                            IF log[n].eligible_running = {}
                            THEN NoEligible ELSE NotEligible
                       /\ log[n].eligible_running \subseteq EligibleRunning
                  /\ lost = 0 /\ adverse = 0 =>
                       /\ log[n].eligible_running = EligibleRunning
                       /\ log[n].message = NoEligible <=> EligibleRunning = {}
                       /\ log[n].message = NotEligible <=>
                            /\ EligibleRunning # {}
                            /\ Range(configured_targets) \cap EligibleRunning
                                 = {}
                       /\ Len(violations) = Len(configured_targets)
                       /\ \A i \in DOMAIN violations :
                            violations[i] =
                              ViolationRecord(RunLabel, configured_targets[i],
                                check_target(configured_targets[i],
                                    list_containers(inv, TRUE, TRUE),
                                    list_containers(inv, FALSE, TRUE)
                                  ).reason[1]) )

\* a run configured with a monitoring container only has left through the
\* startup exit while other containers run
C9_Witness ==
    /\ EarlyExit
    /\ configured_targets = << "Grafana-agent" >>
    /\ Len(log) = 2
    /\ log[1] = ViolationRecord(RunLabel, "Grafana-agent", ReasonMonitoring)
    /\ log[2].kind = "startup_summary"
    /\ log[2].message = NotEligible
    /\ log[2].eligible_running # {}

-----------------------------------------------------------------------------
(* A Stats object on its own: up to MaxCalls calls of its methods with     *)
(* sample values, then summary().                                          *)

SampleValues == { 0, 10, 15 }
OptSample == { None } \cup { Some(v) : v \in SampleValues }

\* the metric mappings handed to add_prom
MetricInputs ==
    { None } \cup { Some([ al \in { "rss_bytes" } |-> v ]) : v \in OptSample }

\* the stats samples handed to add_docker_stats
DockInputs ==
    { DockSample(Some("no output"), None, None) }
    \cup { DockSample(None, Some(v), Some(v)) : v \in SampleValues }
    \cup { DockSample(None, Some(10), None) }

InitStats ==
    /\ mode = "mixed" /\ fault = "cpu_hog"
    /\ configured_targets = << >>
    /\ duration = 0 /\ interval = 0 /\ do_probe = TRUE
    /\ inv = [ n \in ContainerNames |-> "running" ]
    /\ pc = "stats"
    /\ Locals

\* what a call on the Stats object leaves alone (iteration counts the calls)
statsrest == << cfg, unitv, inv, now, adverse, end_time, targets, target,
                action_name, chkv, callv, obs_b, obs_a, iov, summary >>

CallAdd ==
    /\ pc = "stats" /\ iteration < MaxCalls
    /\ \E tg \in { "testapp_cart", "worker" }, ok \in BOOLEAN :
         stats' = StatsAdd(stats, "pause", tg, ok)
    /\ iteration' = iteration + 1
    /\ UNCHANGED << pc, statsrest >>

CallAddProbe ==
    /\ pc = "stats" /\ iteration < MaxCalls
    /\ \E b \in OptSample, a \in OptSample :
         stats' = StatsAddProbe(stats, b, a)
    /\ iteration' = iteration + 1
    /\ UNCHANGED << pc, statsrest >>

CallAddProm ==
    /\ pc = "stats" /\ iteration < MaxCalls
    /\ \E mb \in MetricInputs, ma \in MetricInputs :
         stats' = StatsAddProm(stats, mb, ma)
    /\ iteration' = iteration + 1
    /\ UNCHANGED << pc, statsrest >>

CallAddUptime ==
    /\ pc = "stats" /\ iteration < MaxCalls
    /\ \E ub \in OptSample \cup { NonNumeric },
          ua \in OptSample \cup { NonNumeric } :
         stats' = StatsAddUptime(stats, ub, ua)
    /\ iteration' = iteration + 1
    /\ UNCHANGED << pc, statsrest >>

CallAddDocker ==
    /\ pc = "stats" /\ iteration < MaxCalls
    /\ \E b \in DockInputs, a \in DockInputs :
         stats' = StatsAddDocker(stats, b, a)
    /\ iteration' = iteration + 1
    /\ UNCHANGED << pc, statsrest >>

CallSummary ==
    /\ pc = "stats"
    /\ summary' = Some(Summary(stats))
    /\ pc' = "summarized"
    /\ UNCHANGED << cfg, unitv, inv, now, adverse, end_time, iteration, targets,
                    target, action_name, chkv, callv, obs_b, obs_a, stats,
                    iov >>

NextStats ==
    \/ CallAdd \/ CallAddProbe \/ CallAddProm \/ CallAddUptime
    \/ CallAddDocker \/ CallSummary

SpecStats == InitStats /\ [][NextStats]_vars

Abs(x) == IF x >= 0 THEN x ELSE 0 - x

\* the before/after series of the summary: the lists, the summary entry
\* and the decimals of its averages
SeriesPairs ==
    { << stats.prom_series[al].before, stats.prom_series[al].after,
         summary[1].prom[al], 6 >> : al \in DOMAIN stats.prom_series }
    \cup { << stats.up_before_vals, stats.up_after_vals,
              summary[1].uptime, 6 >>,
           << stats.docker_cpu_before, stats.docker_cpu_after,
              summary[1].docker.cpu_pct, 3 >>,
           << stats.docker_mem_before, stats.docker_mem_after,
              summary[1].docker.mem_used_bytes, 1 >> }

\* avg (held as avg * 10^k) is exactly the mean of l, or null for no value
ExactMean(l, avg, k) ==
    /\ avg = None <=> l = << >>
    /\ avg # None => avg[1] * Len(l) = Sum(l) * Pow10(k)

\* avg is the mean of l rounded to k decimals, or null for no value
RoundedMean(l, avg, k) ==
    /\ avg = None <=> l = << >>
    /\ avg # None => 2 * Abs(avg[1] * Len(l) - Sum(l) * Pow10(k)) <= Len(l)

\* delta_pct is null exactly when a list is empty or the before mean is 0
DeltaDefined(b, a, d) ==
    d = None <=> (b = << >> \/ a = << >> \/ Sum(b) = 0)

\* (after_mean - before_mean) / before_mean * 100, in hundredths of a
\* percent, as the fraction num / den
DeltaNum(b, a) == (Sum(a) * Len(b) - Sum(b) * Len(a)) * 10000
DeltaDen(b, a) == Len(a) * Sum(b)

\* C10, as first stated: each average of a before/after pair is the
\* arithmetic mean of its list, or null for an empty list; delta_pct is
\* (after_avg - before_avg) / before_avg * 100 when both averages exist and
\* before_avg is not 0, and null otherwise; before [10] and after [15]
\* give exactly 50.
C10_Original ==
    pc = "summarized" =>
      \A p \in SeriesPairs :
        LET b == p[1]  a == p[2]  out == p[3]  k == p[4]
        IN  /\ ExactMean(b, out.avg_before, k)
            /\ ExactMean(a, out.avg_after, k)
            /\ DeltaDefined(b, a, out.delta_pct)
            /\ out.delta_pct # None =>
                 out.delta_pct[1] * DeltaDen(b, a) = DeltaNum(b, a)
            /\ b = << 10 >> /\ a = << 15 >> => out.delta_pct = Some(5000)

\* C10, amended: each average of a before/after pair is the arithmetic
\* mean of its list rounded to a fixed number of decimals (6 for a metric
\* alias and for uptime, 3 for cpu_pct, 1 for mem_used_bytes), or null for
\* an empty list; delta_pct is (after_mean - before_mean) / before_mean *
\* 100 of the unrounded means, rounded to 2 decimals, when both lists are
\* non-empty and the before mean is not 0, and null otherwise (never a
\* division by zero); before [10] and after [15] give exactly 50.
C10_SummarySeries ==
    pc = "summarized" =>
      \A p \in SeriesPairs :
        LET b == p[1]  a == p[2]  out == p[3]  k == p[4]
        IN  /\ RoundedMean(b, out.avg_before, k)
            /\ RoundedMean(a, out.avg_after, k)
            /\ DeltaDefined(b, a, out.delta_pct)
            /\ out.delta_pct # None =>
                 2 * Abs(out.delta_pct[1] * DeltaDen(b, a) - DeltaNum(b, a))
                   <= Abs(DeltaDen(b, a))
            /\ b = << 10 >> /\ a = << 15 >> => out.delta_pct = Some(5000)

\* the summary of a metric alias with before [10] and after [15]
C10_Witness ==
    /\ pc = "summarized"
    /\ "rss_bytes" \in DOMAIN stats.prom_series
    /\ stats.prom_series["rss_bytes"] =
         [ before |-> << 10 >>, after |-> << 15 >> ]
    /\ summary[1].prom["rss_bytes"].delta_pct = Some(5000)

\* list b is list a with elements appended at its end
Extends(a, b) == Len(a) <= Len(b) /\ SubSeq(b, 1, Len(a)) = a

\* no key of the count map d is missing in e, and no count is smaller
CountsGrow(d, e) ==
    /\ DOMAIN d \subseteq DOMAIN e
    /\ \A k \in DOMAIN d : d[k] <= e[k]

\* C17: over any sequence of add / add_probe / add_prom / add_uptime /
\* add_docker_stats calls total, errors, every per-action and per-target
\* count and every missing/failed counter never decrease, every
\* before/after list only grows by appending at its end, and no key of
\* by_action, by_target or the metric-alias map is ever removed.
C17_Monotonic ==
    [][ /\ stats.total <= stats'.total
        /\ stats.errors <= stats'.errors
        /\ CountsGrow(stats.by_action, stats'.by_action)
        /\ CountsGrow(stats.by_target, stats'.by_target)
        /\ stats.fail_before <= stats'.fail_before
        /\ stats.fail_after <= stats'.fail_after
        /\ stats.up_missing_before <= stats'.up_missing_before
        /\ stats.up_missing_after <= stats'.up_missing_after
        /\ Extends(stats.lat_before, stats'.lat_before)
        /\ Extends(stats.lat_after, stats'.lat_after)
        /\ Extends(stats.up_before_vals, stats'.up_before_vals)
        /\ Extends(stats.up_after_vals, stats'.up_after_vals)
        /\ Extends(stats.docker_cpu_before, stats'.docker_cpu_before)
        /\ Extends(stats.docker_cpu_after, stats'.docker_cpu_after)
        /\ Extends(stats.docker_mem_before, stats'.docker_mem_before)
        /\ Extends(stats.docker_mem_after, stats'.docker_mem_after)
        /\ DOMAIN stats.prom_series \subseteq DOMAIN stats'.prom_series
        /\ \A al \in DOMAIN stats.prom_series :
             /\ Extends(stats.prom_series[al].before,
                        stats'.prom_series[al].before)
             /\ Extends(stats.prom_series[al].after,
                        stats'.prom_series[al].after)
      ]_vars

\* three calls have filled an uptime list with two values and counted an
\* action
C17_Witness ==
    /\ pc = "stats" /\ iteration = MaxCalls
    /\ stats.total = 1 /\ stats.by_target = Put(EmptyMap, "worker", 1)
    /\ Len(stats.up_before_vals) = 2
    /\ stats.up_before_vals[1] # stats.up_before_vals[2]

-----------------------------------------------------------------------------
(* The order of the steps of an iteration, and the deadline.               *)

\* the fault action of the iteration is being executed (guard included)
Executing ==
    \/ pc \in { "dispatch", "act" }
    \/ pc \in { "chk_mon", "chk_exists", "chk_running", "chk_ret" }
       /\ chk_site = "guard"

\* the agent is inside an iteration, between the selection and the sleep
InIteration ==
    Executing \/ pc \in { "obs_before", "record_event", "obs_after",
                         "dock_after" }

\* the log is untouched, or one record was handed to it (and written or lost)
Logged(rec) ==
    \/ log' = Append(log, rec) /\ lost' = lost
    \/ log' = log /\ lost' = lost + 1

\* C14, as first stated: in an iteration the before-observations are
\* sampled, then the action is executed, then the after-observations are
\* sampled, then the event is persisted, then the statistics are updated;
\* so no log record is written and no statistic is updated before the
\* iteration's after-observations have been sampled.
C14_Original ==
    [][ InIteration /\ (iov' # iov \/ stats' # stats)
          => pc \in { "obs_after", "dock_after" } ]_vars

\* C14: in an iteration the before-observations are sampled, then the
\* action is executed, then the event is handed to the log and the action
\* is counted, then the probe, uptime and metrics are sampled again and
\* the uptime and metric statistics updated, then the container stats are
\* sampled again, the update record is handed to the log and the probe and
\* container statistics are updated.  Only the update record and the
\* observation statistics wait for the after-observations.
C14_StepOrder ==
    [][ /\ pc = "obs_before" /\ pc' # pc
          => pc' = "dispatch" /\ UNCHANGED << obs_a, stats, iov >>
        /\ Executing
          => /\ Executing' \/ pc' = "record_event"
             /\ UNCHANGED << obs_b, obs_a, stats >>
             /\ iov' # iov =>
                  pc = "chk_ret" /\ Logged(GuardViolation)
        /\ pc' = "record_event" => Executing
        /\ pc = "record_event"
          => /\ pc' = "obs_after"
             /\ UNCHANGED << obs_b, obs_a >>
             /\ Logged(ThisEvent)
             /\ stats' = StatsAdd(stats, action_name, target,
                                  ResultOk(result))
        /\ pc = "obs_after" /\ pc' # pc
          => /\ pc' = "dock_after"
             /\ UNCHANGED << obs_b, dock_after, iov >>
             /\ stats' = StatsAddUptime(
                           StatsAddProm(stats, metrics_before, metrics_after'),
                           up_before, up_after')
        /\ pc = "dock_after" /\ pc' # pc
          => /\ pc' = "sleep"
             /\ UNCHANGED << obs_b, after_ms, up_after, metrics_after >>
             /\ Logged(UpdateRecord(action_name, target,
                   [ before |-> before_ms, after |-> after_ms ],
                   [ before |-> up_before, after |-> up_after ],
                   [ before |-> metrics_before, after |-> metrics_after ],
                   [ before |-> dock_before, after |-> dock_after' ]))
             /\ stats'.total = stats.total /\ stats'.errors = stats.errors
        /\ InIteration /\ pc' = pc /\ pc # "record_event"
          => UNCHANGED << obs_b, obs_a, stats, iov >>
      ]_vars

\* the event of the first iteration is in the log and counted while the
\* after-observations are still to be sampled
C14_Witness ==
    /\ pc = "obs_after" /\ iteration = 0
    /\ do_probe /\ before_ms # None /\ after_ms = None
    /\ log # << >> /\ log[Len(log)] = ThisEvent
    /\ stats.total = 1

\* C15: the deadline is evaluated only at the top of an iteration: no
\* iteration begins (no target is selected, no action invoked) once the
\* time read there has reached the deadline, and an iteration that began
\* runs all its steps to the end and then sleeps exactly `interval`, even
\* if the deadline passes in the middle of it.
C15_DeadlineAtTop ==
    [][ /\ pc' # pc /\ pc' \in { "select", "finalize" } => pc = "loop"
        /\ pc = "loop" /\ pc' = "select" => now' < end_time
        /\ pc = "loop" /\ pc' # pc /\ now' >= end_time => pc' = "finalize"
        /\ pc = "select" => pc' = "obs_before"
        /\ fn_calls' # fn_calls /\ fn_calls' # 0 => Executing
        /\ InIteration
          => /\ InIteration' \/ pc' = "sleep"
             /\ UNCHANGED << now, end_time >>
        /\ pc' = "sleep" /\ pc # "sleep"
          => pc = "dock_after" /\ iteration' = iteration + 1
        /\ pc = "sleep"
          => pc' = "loop" /\ now' = now + interval
                          /\ UNCHANGED << end_time, iteration >>
      ]_vars

\* a run without sleep whose deadline passed during its first iteration:
\* the iteration was completed and the next reading of the clock ends it
C15_Witness ==
    /\ pc = "finalize"
    /\ interval = 0 /\ duration > 0
    /\ iteration = 1 /\ stats.total = 1
    /\ now >= end_time

\* The agent is one sequential process whose calls all return: whenever it
\* has a next step it takes it.  The environment's changes are bounded.
\* Termination is checked for the runs that start with every container
\* running, probing on, and a duration that lets the loop come round twice.
InitLive ==
    /\ mode \in { "focused", "mixed" }
    /\ fault \in IF mode = "focused" THEN Catalog \cup { "bogus" }
                 ELSE { "cpu_hog" }
    /\ configured_targets \in { << >>, << "Grafana-agent" >> }
    /\ duration = MaxDuration + MaxInterval /\ interval = MaxInterval
    /\ do_probe = TRUE
    /\ inv = [ n \in ContainerNames |-> "running" ]
    /\ pc = "build"
    /\ Locals

SpecLive == InitLive /\ [][Next]_vars /\ WF_vars(Next)

\* the fault named on the command line is one of the catalog
KnownFault == mode = "focused" => fault \in Catalog

\* C16, as first stated: every run terminates; the loop leaves the
\* iteration cycle and reaches FINALIZE, where the summary is logged, or
\* the run takes the startup no-target exit.
C16_Original ==
    KnownFault =>
      <>( /\ pc = "done"
          /\ \/ EarlyExit
             \/ log # << >> /\ log[Len(log)] = SummaryRecord(Summary(stats)) )

\* C16: every run terminates; whatever the actions and observations
\* return, the loop leaves the iteration cycle and reaches FINALIZE, where
\* the summary is computed and handed to the log writer (it is the last
\* record unless that write fails), or the run takes the startup no-target
\* exit.
C16_Terminates ==
    KnownFault =>
      <>( /\ pc = "done"
          /\ \/ EarlyExit
             \/ /\ summary = Some(Summary(stats))
                /\ \/ log # << >>
                      /\ log[Len(log)] = SummaryRecord(Summary(stats))
                   \/ lost > 0 )

\* a run whose last action raised has reached the end with its summary
C16_Witness ==
    /\ pc = "done"
    /\ raised /\ iteration >= 1
    /\ summary = Some(Summary(stats))
    /\ log[Len(log)] = SummaryRecord(Summary(stats))

\* the places of the summary records in the log
SummaryPlaces == { i \in DOMAIN log : log[i].kind = "summary" }

\* C18, as first stated: the log is append-only over the whole run: every
\* write appends exactly one record after all existing ones and no record
\* already in the log is modified, reordered or deleted; a run that
\* reaches FINALIZE writes exactly one final summary record, with no
\* event, update or violation record after it.
C18_Original ==
    /\ [][ iov' # iov => Len(log') = Len(log) + 1 /\ Extends(log, log')
         ]_vars
    /\ [] ( pc = "done" /\ summary # None => SummaryPlaces = { Len(log) } )

\* C18: the log is append-only over the whole run: every write either
\* appends exactly one record after all existing ones or fails and leaves
\* the log as it was, and no record already in the log is modified,
\* reordered or deleted; a run that reaches FINALIZE hands exactly one
\* final summary record to the writer, which is the last record of the log
\* unless that write failed, and nothing is appended after FINALIZE.
C18_AppendOnly ==
    /\ [][ /\ Extends(log, log') /\ Len(log') <= Len(log) + 1
           /\ lost' \in { lost, lost + 1 }
           /\ iov' # iov => (Len(log') = Len(log) + 1) # (lost' = lost + 1)
           /\ pc = "finalize" /\ pc' = "done" =>
                \/ log' = Append(log, SummaryRecord(Summary(stats)))
                \/ log' = log /\ lost' = lost + 1
           /\ pc = "done" => iov' = iov
         ]_vars
    /\ [] ( /\ SummaryPlaces \subseteq { Len(log) }
            /\ SummaryPlaces # {} => pc = "done" /\ summary # None
            /\ pc = "done" /\ summary # None /\ lost = 0 =>
                 log[Len(log)] = SummaryRecord(summary[1]) )

\* a run of two iterations lost one line and ends with its summary last
C18_Witness ==
    /\ pc = "done" /\ iteration = 2
    /\ lost = 1
    /\ Len(log) = 4
    /\ SummaryPlaces = { 4 }

\* container n is one the runtime lists as running and that is not an
\* infrastructure component
EligibleNow(n) ==
    /\ n \in DOMAIN inv
    /\ Listed(inv[n], FALSE)
    /\ ~ is_monitoring_container(n)

\* C19, as first stated: in every iteration the target chosen at
\* SELECT_TARGET is eligible at the moment it is chosen (it exists, is
\* running and is not an infrastructure component), however the inventory
\* evolves during the run.
C19_Original ==
    [][ pc = "select" /\ pc' = "obs_before" => EligibleNow(target') ]_vars

\* C19: in every iteration the target chosen at SELECT_TARGET is a member
\* of the pool computed at the latest refresh: it was listed as running by
\* the runtime at that refresh, is not an infrastructure component and is
\* one of the configured targets when targets are configured.  The pool is
\* not recomputed between refreshes, so the target may have stopped or
\* disappeared by the time it is chosen.
C19_SelectedFromPool ==
    /\ [][ /\ targets' # targets =>
                /\ pc \in { "pick", "loop" }
                /\ \A n \in Range(targets') : EligibleNow(n)
           /\ pc = "select" /\ pc' = "obs_before" =>
                target' \in Range(targets)
         ]_vars
    /\ [] ( \A n \in Range(targets) :
              /\ ~ is_monitoring_container(n)
              /\ configured_targets # << >> =>
                   n \in Range(configured_targets) )
    /\ [] ( pc = "select" => targets # << >> )

\* the second iteration has chosen a target that is no longer running
C19_Witness ==
    /\ pc = "obs_before" /\ iteration = 1
    /\ target \in Range(targets)
    /\ inv[target] \in { "stopped", "absent" }

\* A long run: one configured target, one fault, a sleep of one second and
\* a duration that lets the loop reach its second refresh.
InitLong ==
    /\ mode = "focused" /\ fault = "restart"
    /\ configured_targets = << "worker" >>
    /\ duration = MaxIterLong /\ interval = 1
    /\ do_probe = FALSE
    /\ inv = [ n \in ContainerNames |-> "running" ]
    /\ pc = "build"
    /\ Locals

SpecLong == InitLong /\ [][Next]_vars

\* the pool pick_targets can return in the current inventory, the listing
\* having worked or failed
PoolsNow ==
    { pick_targets(list_containers(inv, FALSE, ran), configured_targets) :
        ran \in BOOLEAN }

\* a run that went round the loop and has ended
LoopRunOver == pc = "done" /\ summary # None

\* C20, as first stated: the pool is recomputed from the runtime exactly
\* at the iterations whose index is a multiple of 10 and left unchanged by
\* every other iteration; a refresh that yields an empty pool makes the
\* loop exit at once, with no target selected and no further action, and
\* the final summary of the actions executed so far is still computed and
\* logged.
C20_Original ==
    /\ [][ pc = "loop" /\ pc' # pc =>
             /\ iteration % 10 # 0 => targets' = targets
             /\ iteration % 10 = 0 /\ now' < end_time =>
                  targets' \in PoolsNow
             /\ targets' = << >> => pc' = "finalize"
         ]_vars
    /\ [] ( LoopRunOver =>
              /\ summary = Some(Summary(stats))
              /\ log # << >>
              /\ log[Len(log)] = SummaryRecord(Summary(stats)) )

\* C20: the pool is recomputed from the runtime exactly at the iterations
\* whose index is a multiple of 10 (while the deadline has not passed) and
\* left unchanged by every other step of the loop; a refresh that yields
\* an empty pool makes the loop exit at once, with no target selected and
\* no further action, and the final summary of the actions executed so
\* far is still computed and handed to the log writer, which appends it
\* unless the write fails.
C20_Refresh ==
    /\ [][ /\ pc = "loop" /\ pc' # pc =>
                /\ iteration % 10 # 0 \/ now' >= end_time =>
                     targets' = targets
                /\ iteration % 10 = 0 /\ now' < end_time =>
                     targets' \in PoolsNow
                /\ targets' = << >> =>
                     /\ pc' = "finalize"
                     /\ UNCHANGED << target, fn_calls, cmds, stats, iov,
                                     iteration >>
           /\ pc \notin { "loop", "pick" } => targets' = targets
           /\ pc = "finalize" =>
                /\ pc' = "done"
                /\ summary' = Some(Summary(stats))
                /\ Logged(SummaryRecord(Summary(stats)))
                /\ UNCHANGED << stats, target, fn_calls, cmds >>
           /\ pc = "done" => UNCHANGED << stats, iov, summary >>
         ]_vars
    /\ [] ( LoopRunOver /\ lost = 0 =>
              /\ log # << >>
              /\ log[Len(log)] = SummaryRecord(Summary(stats)) )

\* the refresh at iteration 10 found no target: the run ended there with
\* the summary of its ten actions last in the log
C20_Witness ==
    /\ pc = "done"
    /\ iteration = 10 /\ now < end_time
    /\ targets = << >>
    /\ stats.total = 10
    /\ log[Len(log)] = SummaryRecord(Summary(stats))

-----------------------------------------------------------------------------
(* The fault actions inside the loop.                                      *)

\* the names of the commands issued so far by the action of this iteration
Issued == [ i \in DOMAIN cmds |-> cmds[i].cmd ]

\* the action of this iteration was invoked and has returned
ActionReturned ==
    /\ pc = "record_event" /\ chk_site = "guard"
    /\ check_result.ok /\ ~ raised

\* the action of this iteration is running or has returned
ActionEntered == (pc = "act" /\ ~ raised) \/ ActionReturned

\* C21: pause_unpause issues pause and then exactly one unpause on the same
\* target whatever the pause result was; kill_restart issues kill and then
\* exactly one start (not restart) on the same target whatever the kill
\* result was.  Each returns both sub-results together and neither retries
\* a failed second step.
C21_TwoSteps ==
    /\ [] ( ActionEntered /\ action_name = "pause" =>
              /\ Extends(Issued, << "pause", "unpause" >>)
              /\ \A i \in DOMAIN cmds : cmds[i].op = cmds[i].cmd
              /\ ActionReturned =>
                   /\ Len(cmds) = 2
                   /\ result = [ pause |-> Seen(cmds[1]),
                                 unpause |-> Seen(cmds[2]) ] )
    /\ [] ( ActionEntered /\ action_name = "kill_restart" =>
              /\ Extends(Issued, << "kill", "start" >>)
              /\ \A i \in DOMAIN cmds : cmds[i].op = cmds[i].cmd
              /\ ActionReturned =>
                   /\ Len(cmds) = 2
                   /\ result = [ kill |-> Seen(cmds[1]),
                                 start |-> Seen(cmds[2]) ] )
    /\ [][ cmds' # cmds /\ cmds' # << >> =>
             /\ pc = "act" /\ target' = target
             /\ cmds' = Append(cmds, cmds'[Len(cmds')])
             /\ cmds'[Len(cmds')].st = inv[target]
             /\ \A n \in DOMAIN inv \ { target } : inv'[n] = inv[n]
         ]_vars

\* the kill failed and the start was issued all the same
C21_Witness ==
    /\ ActionReturned /\ action_name = "kill_restart"
    /\ cmds[1].error # None
    /\ cmds[2].cmd = "start"
    /\ result.kill.error # None

ProbesBefore(s) == Len(s.lat_before) + s.fail_before
ProbesAfter(s) == Len(s.lat_after) + s.fail_after
UptimesBefore(s) == Len(s.up_before_vals) + s.up_missing_before
UptimesAfter(s) == Len(s.up_after_vals) + s.up_missing_after

\* the loop is between two iterations, or past the last one
IterationBoundary == pc \in { "sleep", "loop", "finalize", "done" }

\* C24: a null (for uptime also a non-numeric) sample is counted as missing
\* instead of being appended, so the kept and the missing samples of each
\* side add up to the number of add_probe calls, respectively add_uptime
\* calls; at every iteration boundary of the loop the uptime sums equal
\* total, and the latency sums equal total when probing is enabled and 0
\* when it is disabled.
C24_Accounting ==
    /\ [] ( /\ ProbesBefore(stats) = ProbesAfter(stats)
            /\ UptimesBefore(stats) = UptimesAfter(stats) )
    /\ [][ /\ pc = "obs_after" /\ pc' # pc =>
                /\ UptimesBefore(stats') = UptimesBefore(stats) + 1
                /\ up_before = None <=>
                     stats'.up_missing_before = stats.up_missing_before + 1
                /\ up_after' = None <=>
                     stats'.up_missing_after = stats.up_missing_after + 1
                /\ ProbesBefore(stats') = ProbesBefore(stats)
           /\ pc = "dock_after" /\ pc' # pc =>
                /\ ProbesBefore(stats') =
                     ProbesBefore(stats) + (IF do_probe THEN 1 ELSE 0)
                /\ do_probe =>
                     /\ before_ms = None <=>
                          stats'.fail_before = stats.fail_before + 1
                     /\ after_ms = None <=>
                          stats'.fail_after = stats.fail_after + 1
                /\ UptimesBefore(stats') = UptimesBefore(stats)
           /\ pc \notin { "obs_after", "dock_after", "stats" } =>
                /\ ProbesBefore(stats') = ProbesBefore(stats)
                /\ UptimesBefore(stats') = UptimesBefore(stats)
           /\ ProbesBefore(stats') - ProbesBefore(stats) \in { 0, 1 }
           /\ UptimesBefore(stats') - UptimesBefore(stats) \in { 0, 1 }
         ]_vars
    /\ [] ( IterationBoundary =>
              /\ stats.total = iteration
              /\ UptimesBefore(stats) = stats.total
              /\ ProbesBefore(stats) = IF do_probe THEN stats.total ELSE 0 )

\* after two iterations with probing, one probe and one uptime sample were
\* counted missing and the other two were kept
C24_Witness ==
    /\ pc = "sleep" /\ iteration = 2 /\ do_probe
    /\ stats.fail_after = 1 /\ Len(stats.lat_after) = 1
    /\ stats.up_missing_after = 1 /\ Len(stats.up_after_vals) = 1

\* the commands of the function registered under each catalog name
\* (lines 226-251, 529-559, docker_functions.py lines 58-70)
CommandsOf(a) ==
    CASE a = "pause" -> { "pause", "unpause" }
      [] a = "kill_restart" -> { "kill", "start" }
      [] a = "disk_fill" -> { "create", "cleanup" }
      [] a = "metrics_block" -> { "iptables_add", "fallback_patch",
                                  "iptables_remove" }
      [] OTHER -> { a }

\* the names recorded in the events and updates of the log
RecordedNames ==
    { log[i].action : i \in { j \in DOMAIN log :
                                log[j].kind \in { "event", "update" } } }

\* the guarded action of this iteration has been called
Dispatched ==
    \/ pc \in { "act", "record_event", "obs_after", "dock_after" }
    \/ pc \in { "chk_mon", "chk_exists", "chk_running", "chk_ret" }
       /\ chk_site = "guard"

NothingStarted ==
    /\ targets = << >> /\ target = "" /\ iteration = 0
    /\ listed_all = {} /\ listed_run = {} /\ chk_site = ""
    /\ obs_b = << None, NoSample, None, None, None >>
    /\ obs_a = << None, NoSample, None, None >>
    /\ action_name = "" /\ fn_calls = 0 /\ cmds = << >>
    /\ stats = StatsInit /\ log = << >> /\ lost = 0 /\ summary = None
    /\ adverse = 0

\* C27: a fault name outside the nine-name catalog is rejected when the
\* focused executor is built at INIT, before any target is listed or
\* selected, any observation is made or any runtime fault command is
\* issued; the rejection is never deferred to the first invocation of the
\* action.
C27_RejectedAtBuild ==
    /\ [] ( mode = "focused" /\ fault \notin Catalog =>
              pc \in { "build", "raised" } /\ NothingStarted )
    /\ [] ( pc = "raised" =>
              mode = "focused" /\ fault \notin Catalog /\ NothingStarted )
    /\ [][ mode = "focused" /\ fault \notin Catalog /\ pc = "build" =>
             pc' = "raised" ]_vars

\* the focused run with the fault name "bogus" has been rejected
C27_Witness == pc = "raised" /\ fault = "bogus" /\ NothingStarted

\* the sum of the counts of a count map
RECURSIVE SumOver(_, _)
SumOver(d, keys) ==
    IF keys = {} THEN 0
    ELSE LET k == CHOOSE x \in keys : TRUE
         IN  d[k] + SumOver(d, keys \ { k })

SumCounts(d) == SumOver(d, DOMAIN d)

\* C29: in every reachable state of a run the per-action counts and the
\* per-target counts each sum to total, and 0 <= errors <= total.
C29_CountsSum ==
    /\ SumCounts(stats.by_action) = stats.total
    /\ SumCounts(stats.by_target) = stats.total
    /\ 0 <= stats.errors /\ stats.errors <= stats.total

\* two actions were counted, on two targets, one of them failed
C29_Witness ==
    /\ stats.total = 2 /\ stats.errors = 1
    /\ Cardinality(DOMAIN stats.by_target) = 2
    /\ SumCounts(stats.by_action) = 2

\* the guard refused the target of this iteration, and the guarded action
\* has returned
GuardRefused ==
    /\ chk_site = "guard" /\ ~ check_result.ok
    /\ pc \in { "record_event", "obs_after", "dock_after", "sleep" }

\* the three records of an iteration whose target the guard refused
RefusedRecords ==
    << ViolationRecord(FnName(action_name), target, check_result.reason[1]),
       EventRecord(action_name, target, [ error |-> check_result.reason ],
                   up_before, metrics_before),
       UpdateRecord(action_name, target,
                    [ before |-> before_ms, after |-> after_ms ],
                    [ before |-> up_before, after |-> up_after ],
                    [ before |-> metrics_before, after |-> metrics_after ],
                    [ before |-> dock_before, after |-> dock_after ]) >>

\* the records written since the action of this iteration was called
SinceCall == SubSeq(log, log_mark[1] + 1, Len(log))

\* s is t with at most one element left out
OneLeftOut(s, t) ==
    \/ s = t
    \/ \E i \in DOMAIN t :
         s = SubSeq(t, 1, i - 1) \o SubSeq(t, i + 1, Len(t))

\* the statistics gained one action, one error and one count for the
\* action and for the target
GainedOneError(s, t) ==
    /\ t.total = s.total + 1 /\ t.errors = s.errors + 1
    /\ t.by_action = Put(s.by_action, action_name,
                         Get(s.by_action, action_name, 0) + 1)
    /\ t.by_target = Put(s.by_target, target, Get(s.by_target, target, 0) + 1)

\* C30, as first stated: when the selected target fails the guard at
\* execution time the iteration is still accounted as an executed action:
\* the violation record is appended first, then the action event whose
\* result is {error: reason}, then the observation-update event (three
\* records for that iteration), and the statistics gain total + 1,
\* errors + 1 and one count for that action and that target, although no
\* fault command was issued.
C30_Original ==
    /\ [] ( GuardRefused => fn_calls = 0 /\ cmds = << >> )
    /\ [] ( GuardRefused /\ pc = "sleep" => SinceCall = RefusedRecords )
    /\ [][ GuardRefused /\ pc = "record_event" /\ pc' # pc =>
             GainedOneError(stats, stats') ]_vars

\* C30: when the selected target fails the guard at execution time the
\* iteration is still accounted as an executed action: the violation
\* record is handed to the log writer first, then the action event whose
\* result is {error: reason}, then the observation-update event; each is
\* appended unless its write fails, so the log gains the three records in
\* that order, less the one whose write failed; the statistics gain
\* total + 1, errors + 1 and one count for that action and that target,
\* although no fault command was issued.
C30_GuardAccounted ==
    /\ [] ( GuardRefused =>
              /\ fn_calls = 0 /\ cmds = << >>
              /\ Truthy(check_result.reason)
              /\ result = [ error |-> check_result.reason ] )
    /\ [] ( GuardRefused /\ pc = "sleep" =>
              /\ OneLeftOut(SinceCall, RefusedRecords)
              /\ Len(SinceCall) + (lost - log_mark[2]) = 3
              /\ stats.total = iteration )
    /\ [][ /\ pc = "chk_ret" /\ chk_site = "guard" /\ ~ check_result.ok
              /\ pc' # pc =>
                /\ pc' = "record_event" /\ stats' = stats
                /\ Logged(RefusedRecords[1])
           /\ GuardRefused /\ pc = "record_event" /\ pc' # pc =>
                /\ GainedOneError(stats, stats')
                /\ Logged(RefusedRecords[2])
           /\ GuardRefused /\ pc = "dock_after" /\ pc' # pc =>
                /\ stats'.total = stats.total /\ stats'.errors = stats.errors
                /\ stats'.by_action = stats.by_action
                /\ stats'.by_target = stats.by_target
                /\ Logged(RefusedRecords'[3])
         ]_vars

\* the pool held a target that had stopped; the guard refused it, and the
\* iteration left its three records and one counted error
C30_Witness ==
    /\ GuardRefused /\ pc = "sleep"
    /\ check_result.reason = Some("target not running")
    /\ SinceCall = RefusedRecords
    /\ stats.total = 1 /\ stats.errors = 1
    /\ stats.by_target = Put(EmptyMap, target, 1)

-----------------------------------------------------------------------------
(* Observation failures.  probe_target (lines 439-444) catches URLError,  *)
(* HTTPError, the timeouts and the connection errors; urlopen can also     *)
(* fail with an exception outside that list (http.client.BadStatusLine    *)
(* for a reply that is not HTTP, for one), and main calls probe_target    *)
(* outside any try (lines 685 and 718).                                   *)

\* lines 685 and 718: probe_target fails with an exception it does not
\* catch; the exception leaves main
ProbeRaises ==
    /\ pc \in { "obs_before", "obs_after" }
    /\ do_probe /\ PortOf(target) # None /\ inv[target] = "running"
    /\ adverse < MaxAdverse
    /\ adverse' = adverse + 1
    /\ pc' = "raised"
    /\ UNCHANGED << cfg, unitv, inv, now, end_time, iteration, targets, target,
                    action_name, chkv, callv, obs_b, obs_a, stats, iov,
                    summary >>

\* the runs of main with health endpoints that fail in any way
SpecProbe == Init /\ [][Next \/ ProbeRaises]_vars

\* C25: a failure of a single observation step (probe refused, reset, timed
\* out, non-200 or failing with any other exception, failed stats snapshot,
\* discovery, uptime or metric query) degrades only that sample: it is
\* never propagated to the loop, the observation is completed, the fault
\* action is still dispatched, both records are still handed to the log
\* writer, and the loop continues.
C25_ObservationContained ==
    /\ [] ( pc = "raised" => mode = "focused" /\ fault \notin Catalog )
    /\ [][ /\ pc = "obs_before" /\ pc' # pc => pc' = "dispatch"
           /\ pc = "obs_after" /\ pc' # pc => pc' = "dock_after"
           /\ pc = "dock_after" /\ pc' # pc =>
                /\ pc' = "sleep"
                /\ iteration' = iteration + 1
                /\ Len(log') + lost' = Len(log) + lost + 1
         ]_vars

-----------------------------------------------------------------------------
(* disk_fill and its detached cleanup inside one target container, under   *)
(* the other loop actions that stop or freeze the container's processes.   *)

\* the loop actions of one run on the target
MaxDiskCalls == 3

\* the seconds that pass in one step of time
TickSeconds == 5

\* line 536: sleep 10 && rm -f /tmp/chaos_bloat.dat
cleanup_delay == 10

DiskTarget == "worker"

InitDisk ==
    /\ mode = "mixed" /\ fault = "cpu_hog"
    /\ configured_targets = << >>
    /\ duration = 0 /\ interval = 0 /\ do_probe = FALSE
    /\ inv = [ n \in ContainerNames |-> "running" ]
    /\ pc = "disk"
    /\ Locals

\* what an action on the container's inside leaves alone
diskrest == << cfg, unit_in, unit_out, now, end_time, targets, target,
               action_name, chkv, callv, obs_b, obs_a, stats, iov,
               summary >>

\* disk_fill, lines 529-537: the file is written at the fixed path by a
\* synchronous exec, then a detached exec is started that sleeps and
\* removes the path; neither is done when its exec fails
disk_fill(b, id, st, ran_create, ran_cleanup) ==
    [ file |-> IF RunResult("exec", st, ran_create).error = None
               THEN Some(id) ELSE b.file,
      timers |-> IF RunResult("exec", st, ran_cleanup).error = None
                 THEN b.timers \cup { [ owner |-> id,
                                        left |-> cleanup_delay ] }
                 ELSE b.timers ]

\* the detached processes of a container die when the container stops
StopsProcesses(op, st) ==
    op \in { "kill", "restart" } /\ DockerAccepts(op, st)

CallDiskFill ==
    /\ pc = "disk" /\ iteration < MaxDiskCalls
    /\ \E rc \in BOOLEAN, rd \in BOOLEAN :
         /\ adverse + (IF rc THEN 0 ELSE 1) + (IF rd THEN 0 ELSE 1)
              <= MaxAdverse
         /\ adverse' = adverse + (IF rc THEN 0 ELSE 1)
                               + (IF rd THEN 0 ELSE 1)
         /\ box' = disk_fill(box, iteration + 1, inv[DiskTarget], rc, rd)
    /\ iteration' = iteration + 1
    /\ UNCHANGED << pc, inv, diskrest >>

\* pause_unpause: the processes are frozen and thawed; nothing inside the
\* container is lost
CallPauseUnpause ==
    /\ pc = "disk" /\ iteration < MaxDiskCalls
    /\ LET st1 == IF DockerAccepts("pause", inv[DiskTarget])
                  THEN DockerEffect("pause", inv[DiskTarget])
                  ELSE inv[DiskTarget]
           st2 == IF DockerAccepts("unpause", st1)
                  THEN DockerEffect("unpause", st1) ELSE st1
       IN  inv' = [ inv EXCEPT ![DiskTarget] = st2 ]
    /\ iteration' = iteration + 1
    /\ UNCHANGED << pc, box, adverse, diskrest >>

\* restart_container: the container's processes are stopped and its main
\* process started again; the files of the container stay
CallRestart ==
    /\ pc = "disk" /\ iteration < MaxDiskCalls
    /\ LET st == inv[DiskTarget]
       IN  /\ inv' = [ inv EXCEPT ![DiskTarget] =
                         IF DockerAccepts("restart", st)
                         THEN DockerEffect("restart", st) ELSE st ]
           /\ box' = IF StopsProcesses("restart", st)
                     THEN [ box EXCEPT !.timers = {} ] ELSE box
    /\ iteration' = iteration + 1
    /\ UNCHANGED << pc, adverse, diskrest >>

\* kill_restart: kill, then start; the start may fail
CallKillRestart ==
    /\ pc = "disk" /\ iteration < MaxDiskCalls
    /\ \E ran \in BOOLEAN :
         /\ Outcome(ran)
         /\ LET st == inv[DiskTarget]
                st1 == IF DockerAccepts("kill", st)
                       THEN DockerEffect("kill", st) ELSE st
                st2 == IF RunResult("start", st1, ran).error = None
                       THEN DockerEffect("start", st1) ELSE st1
            IN  /\ inv' = [ inv EXCEPT ![DiskTarget] = st2 ]
                /\ box' = IF StopsProcesses("kill", st)
                          THEN [ box EXCEPT !.timers = {} ] ELSE box
    /\ iteration' = iteration + 1
    /\ UNCHANGED << pc, diskrest >>

\* the cleanups whose sleep ends within the next step of time
Firing(b) == { t \in b.timers : t.left <= TickSeconds }

\* time passes in a running container: the sleeps go on, and a cleanup
\* whose sleep has ended removes the file at the fixed path
Elapse ==
    /\ pc = "disk"
    /\ inv[DiskTarget] = "running"
    /\ box.timers # {}
    /\ box' = [ file |-> IF Firing(box) # {} THEN None ELSE box.file,
                timers |-> { [ t EXCEPT !.left = @ - TickSeconds ] :
                               t \in box.timers \ Firing(box) } ]
    /\ UNCHANGED << pc, inv, adverse, iteration, diskrest >>

NextDisk ==
    \/ CallDiskFill \/ CallPauseUnpause \/ CallRestart \/ CallKillRestart
    \/ Elapse

SpecDisk == InitDisk /\ [][NextDisk]_vars

\* C22: every filler file written by a disk_fill is removed by the cleanup
\* that same invocation scheduled: under any later loop actions on the
\* target (another disk_fill before the delay elapsed, pause, restart,
\* kill_restart) the file is eventually removed, and it is not removed
\* earlier by the cleanup of a previous disk_fill.
\* Stated for the runs in which every command succeeds: a file that is
\* there has its own cleanup waiting, and a file is removed only when its
\* own cleanup fires.
C22_OwnCleanup ==
    /\ [] ( adverse = 0 /\ box.file # None =>
              \E t \in box.timers : t.owner = box.file[1] )
    /\ [][ adverse = 0 /\ box.file # None /\ box'.file = None =>
             \E t \in Firing(box) : t.owner = box.file[1] ]_vars

-----------------------------------------------------------------------------
(* The detached workloads of cpu_hog and memory_hog over the iterations of *)
(* a focused run on one running target.  box.timers holds the workloads    *)
(* in progress, each with the iteration that started it and the seconds    *)
(* it has left.                                                            *)

\* the iterations of one run
MaxHogCalls == 3

\* the largest --interval, in steps of time
MaxHogTicks == 8

\* the seconds the steps of an iteration other than the sleep can take
MaxOverhead == 2

\* lines 564 and 568: seconds=random.choice([15, 25, 35])
HogSeconds == { 15, 25, 35 }

HogTarget == "worker"

InitHog ==
    /\ mode = "focused" /\ fault \in { "cpu_hog", "memory_hog" }
    /\ configured_targets = << HogTarget >>
    /\ duration = 0 /\ do_probe = FALSE
    /\ interval \in { k * TickSeconds : k \in 0 .. MaxHogTicks }
    /\ inv = [ n \in ContainerNames |-> "running" ]
    /\ pc = "hog"
    /\ Locals

\* burn_cpu_in_container / burn_mem_in_container, lines 226-237, through
\* docker_exec with detach=True: `docker exec -d` returns as soon as the
\* workload is started, and the workload runs on for `seconds`
burn_in_container(b, id, seconds, st, ran) ==
    [ b EXCEPT !.timers =
        IF RunResult("exec", st, ran).error = None
        THEN @ \cup { [ owner |-> id, left |-> seconds ] } ELSE @ ]

\* a workload has `elapsed` seconds less to run, or has ended
Advance(b, elapsed) ==
    [ b EXCEPT !.timers = { [ t EXCEPT !.left = @ - elapsed ] :
                              t \in { u \in @ : u.left > elapsed } } ]

\* lines 699-701: the fault action of the iteration
CallHog ==
    /\ pc = "hog" /\ iteration < MaxHogCalls
    /\ \E seconds \in HogSeconds, ran \in BOOLEAN :
         /\ Outcome(ran)
         /\ box' = burn_in_container(box, iteration + 1, seconds,
                                     inv[HogTarget], ran)
    /\ pc' = "hog_sleep"
    /\ UNCHANGED << inv, iteration, diskrest >>

\* lines 702-739: the rest of the iteration and time.sleep(interval)
HogSleep ==
    /\ pc = "hog_sleep"
    /\ \E overhead \in 0 .. MaxOverhead :
         box' = Advance(box, overhead + interval)
    /\ iteration' = iteration + 1
    /\ pc' = "hog"
    /\ UNCHANGED << inv, adverse, diskrest >>

NextHog == CallHog \/ HogSleep

SpecHog == InitHog /\ [][NextHog]_vars

\* C28: no two injected faults are ever in progress at the same time: the
\* fault started in one iteration, including the detached workload of
\* cpu_hog / memory_hog, has run to completion before the fault action of
\* the next iteration begins, for every configured interval.
C28_NoOverlap ==
    /\ \A t, u \in box.timers : t.owner = u.owner
    /\ pc = "hog" => box.timers = {}

\* the same, for the intervals no shorter than the longest workload
NoOverlapLongInterval ==
    (\A s \in HogSeconds : interval >= s) => C28_NoOverlap

-----------------------------------------------------------------------------
(* The runtime client on its own: one call of update_resources,            *)
(* _parse_size_to_bytes, _run or _run_docker with an input from a bounded   *)
(* set.  unit_in holds the arguments, unit_out the value returned.         *)

\* the largest cpu_percent handed to update_resources (the smallest is -2)
MaxPercent == 100

\* an element of a command line: a word, a number, or "<n>m"
Word(w) == [ kind |-> "word", text |-> w, n |-> 0 ]
Num(n) == [ kind |-> "int", text |-> "", n |-> n ]
Megabytes(n) == [ kind |-> "mb", text |-> "m", n |-> n ]

\* int(x) of the quotient num / den (den > 0): truncation towards zero
IntTrunc(num, den) ==
    IF num >= 0 THEN num \div den ELSE 0 - ((0 - num) \div den)

period == 100000

update_resources_noclamp(name, cpu_percent, mem_limit_mb) ==
    << Word("docker"), Word("update") >>
    \o (IF cpu_percent # None
        THEN << Word("--cpu-period"), Num(period), Word("--cpu-quota"),
                Num(IntTrunc(period * cpu_percent[1], 100)) >>
        ELSE << >>)
    \o (IF mem_limit_mb # None
        THEN << Word("--memory"), Megabytes(mem_limit_mb[1]) >> ELSE << >>)
    \o << Word(name) >>

\* update_resources: the command line handed to _run
update_resources(name, cpu_percent, mem_limit_mb) ==
    << Word("docker"), Word("update") >>
    \o (IF cpu_percent # None
        THEN << Word("--cpu-period"), Num(period), Word("--cpu-quota"),
                Num(Max(1, IntTrunc(period * cpu_percent[1], 100))) >>
        ELSE << >>)
    \o (IF mem_limit_mb # None
        THEN << Word("--memory"), Megabytes(mem_limit_mb[1]) >> ELSE << >>)
    \o << Word(name) >>

InitClient ==
    /\ mode = "mixed" /\ fault = "cpu_hog"
    /\ configured_targets = << >>
    /\ duration = 0 /\ interval = 0 /\ do_probe = FALSE
    /\ inv = [ n \in ContainerNames |-> "running" ]
    /\ pc = "unit"
    /\ Locals

\* what a call of the client leaves alone
clientrest == << cfg, box, inv, now, adverse, end_time, iteration, targets,
                 target, action_name, chkv, callv, obs_b, obs_a, stats,
                 iov, summary >>

CallUpdateResources ==
    /\ pc = "unit"
    /\ \E name \in UnitNames,
          cpu \in { None } \cup { Some(v) : v \in -2 .. MaxPercent },
          mem \in { None, Some(0), Some(128), Some(256), Some(384) } :
         /\ unit_in' = [ name |-> name, cpu_percent |-> cpu,
                         mem_limit_mb |-> mem ]
         /\ unit_out' = update_resources(name, cpu, mem)
    /\ pc' = "updated"
    /\ UNCHANGED clientrest

\* the index of the word w in a command line, or 0
IndexOf(args, w) ==
    IF \E i \in DOMAIN args : args[i] = Word(w)
    THEN CHOOSE i \in DOMAIN args : args[i] = Word(w)
    ELSE 0

\* C11: update_resources emits `--cpu-period 100000 --cpu-quota q` with
\* q = max(1, floor(100000 * p / 100)) iff cpu_percent p is non-null (40
\* gives 40000), emits `--memory <m>m` iff the memory value m is non-null,
\* emits nothing for an omitted parameter, and puts the target name last.
C11_UpdateFlags ==
    pc = "updated" =>
      LET args == unit_out
          p == unit_in.cpu_percent
          m == unit_in.mem_limit_mb
          c == IndexOf(args, "--cpu-period")
          q == IndexOf(args, "--memory")
      IN  /\ SubSeq(args, 1, 2) = << Word("docker"), Word("update") >>
          /\ args[Len(args)] = Word(unit_in.name)
          /\ Len(args) = 3 + (IF p # None THEN 4 ELSE 0)
                           + (IF m # None THEN 2 ELSE 0)
          /\ c # 0 <=> p # None
          /\ IndexOf(args, "--cpu-quota") # 0 <=> p # None
          /\ p # None =>
               SubSeq(args, c, c + 3) =
                 << Word("--cpu-period"), Num(100000), Word("--cpu-quota"),
                    Num(Max(1, (100000 * p[1]) \div 100)) >>
          /\ p = Some(40) => args[c + 3] = Num(40000)
          /\ q # 0 <=> m # None
          /\ m # None => args[q + 1] = Megabytes(m[1])
          /\ \A i \in DOMAIN args :
               args[i].kind = "mb" => i = q + 1 /\ q # 0

\* cpu_percent 0 with a memory limit: the quota is raised to 1
C11_Witness ==
    /\ pc = "updated"
    /\ unit_in.cpu_percent = Some(0)
    /\ unit_in.mem_limit_mb = Some(256)
    /\ unit_out = << Word("docker"), Word("update"), Word("--cpu-period"),
                     Num(100000), Word("--cpu-quota"), Num(1),
                     Word("--memory"), Megabytes(256),
                     Word(unit_in.name) >>

\* the longest size string handed to _parse_size_to_bytes
MaxSizeLen == 4

SizeChars == { "1", "5", ".", " ", "K", "M", "G", "T", "P", "i", "B", "b", "x" }

DigitChars == << "0", "1", "2", "3", "4", "5", "6", "7", "8", "9" >>

IsDigit(c) == \E i \in DOMAIN DigitChars : DigitChars[i] = c

DigitValue(c) == (CHOOSE i \in DOMAIN DigitChars : DigitChars[i] = c) - 1

IsSpace(c) == c = " "

UpperChar(c) ==
    IF \E i \in DOMAIN LowerAlpha : LowerAlpha[i] = c
    THEN UpperAlpha[CHOOSE i \in DOMAIN LowerAlpha : LowerAlpha[i] = c]
    ELSE c

Upper(cs) == [ i \in DOMAIN cs |-> UpperChar(cs[i]) ]

\* str.strip(): leading and trailing whitespace removed
strip(cs) ==
    LET keep == { i \in DOMAIN cs : ~ IsSpace(cs[i]) }
    IN  IF keep = {} THEN << >>
        ELSE SubSeq(cs, CHOOSE i \in keep : \A j \in keep : i <= j,
                        CHOOSE i \in keep : \A j \in keep : j <= i)

\* [0-9]*\.?[0-9]+
IsNumber(t) ==
    \E a \in 0 .. Len(t), d \in { 0, 1 } :
      /\ a + d < Len(t)
      /\ \A i \in 1 .. a : IsDigit(t[i])
      /\ d = 1 => t[a + 1] = "."
      /\ \A i \in a + d + 1 .. Len(t) : IsDigit(t[i])

\* [KMGTP]?i?B under re.I
IsUnit(t) ==
    LET u == Upper(t)
    IN  \/ u = << "B" >>
        \/ u = << "I", "B" >>
        \/ \E x \in { "K", "M", "G", "T", "P" } :
             u = << x, "B" >> \/ u = << x, "I", "B" >>

\* re.match: the groups of the match at the start of s, or None.  The
\* three character classes are disjoint and a unit holds one B, so at
\* most one split matches.
SizeMatch(s) ==
    LET splits == { sp \in (0 .. Len(s)) \X (0 .. Len(s)) \X (1 .. 3) :
                      /\ sp[1] + sp[2] + sp[3] <= Len(s)
                      /\ IsNumber(SubSeq(s, 1, sp[1]))
                      /\ \A i \in sp[1] + 1 .. sp[1] + sp[2] : IsSpace(s[i])
                      /\ IsUnit(SubSeq(s, sp[1] + sp[2] + 1,
                                       sp[1] + sp[2] + sp[3])) }
    IN  IF splits = {} THEN None
        ELSE LET sp == CHOOSE x \in splits : TRUE
             IN  Some([ number |-> SubSeq(s, 1, sp[1]),
                        unit |-> SubSeq(s, sp[1] + sp[2] + 1,
                                        sp[1] + sp[2] + sp[3]) ])

RECURSIVE DigitsValue(_)
DigitsValue(ds) ==
    IF ds = << >> THEN 0
    ELSE 10 * DigitsValue(SubSeq(ds, 1, Len(ds) - 1)) + DigitValue(ds[Len(ds)])

\* float(m.group(1)): the value mant / 10^dec
Float(t) ==
    LET dots == { i \in DOMAIN t : t[i] = "." }
        k == IF dots = {} THEN Len(t) + 1 ELSE CHOOSE i \in dots : TRUE
    IN  [ mant |-> DigitsValue(SubSeq(t, 1, k - 1)
                               \o SubSeq(t, k + 1, Len(t))),
          dec |-> IF dots = {} THEN 0 ELSE Len(t) - k ]

\* a multiplier base^exp; 1 is written Mult(1, 0)
Mult(base, exp) == [ base |-> base, exp |-> exp ]

\* the unit table with its default, .get(unit, 1)
UnitMultiplier(unit) ==
    CASE unit = << "B" >> -> Mult(1, 0)
      [] unit = << "K", "B" >> -> Mult(1000, 1)
      [] unit = << "K", "I", "B" >> -> Mult(1024, 1)
      [] unit = << "M", "B" >> -> Mult(1000, 2)
      [] unit = << "M", "I", "B" >> -> Mult(1024, 2)
      [] unit = << "G", "B" >> -> Mult(1000, 3)
      [] unit = << "G", "I", "B" >> -> Mult(1024, 3)
      [] unit = << "T", "B" >> -> Mult(1000, 4)
      [] unit = << "T", "I", "B" >> -> Mult(1024, 4)
      [] OTHER -> Mult(1, 0)

\* _parse_size_to_bytes: None, or the product val * mult
_parse_size_to_bytes(size_str) ==
    LET m == SizeMatch(strip(size_str))
    IN  IF m = None THEN None
        ELSE Some([ val |-> Float(m[1].number),
                    mult |-> UnitMultiplier(Upper(m[1].unit)) ])

CallParseSize ==
    /\ pc = "unit"
    /\ \E size_str \in SeqsUpTo(SizeChars, MaxSizeLen) :
         /\ unit_in' = size_str
         /\ unit_out' = _parse_size_to_bytes(size_str)
    /\ pc' = "parsed"
    /\ UNCHANGED clientrest

\* the units the table knows, case folded
KnownUnits ==
    { << "B" >>, << "K", "B" >>, << "K", "I", "B" >>, << "M", "B" >>,
      << "M", "I", "B" >>, << "G", "B" >>, << "G", "I", "B" >>,
      << "T", "B" >>, << "T", "I", "B" >> }

\* the exponent n of a unit: its place in B, K, M, G, T
UnitExponent(unit) ==
    CASE unit[1] = "B" -> 0
      [] unit[1] = "K" -> 1
      [] unit[1] = "M" -> 2
      [] unit[1] = "G" -> 3
      [] unit[1] = "T" -> 4

\* <number><unit> read generously: surrounding whitespace, whitespace
\* between number and unit and the case of the unit are all tolerated
SizeForm(s) ==
    { sp \in (1 .. Len(s)) \X (1 .. 3) :
        /\ sp[1] + sp[2] <= Len(s)
        /\ IsNumber(SubSeq(s, 1, sp[1]))
        /\ \A i \in sp[1] + 1 .. Len(s) - sp[2] : IsSpace(s[i])
        /\ Upper(SubSeq(s, Len(s) - sp[2] + 1, Len(s))) \in KnownUnits }

SizeExpected(s) ==
    IF SizeForm(s) = {} THEN None
    ELSE LET sp == CHOOSE x \in SizeForm(s) : TRUE
             unit == Upper(SubSeq(s, Len(s) - sp[2] + 1, Len(s)))
             n == UnitExponent(unit)
         IN  Some([ val |-> Float(SubSeq(s, 1, sp[1])),
                    mult |-> IF n = 0 THEN Mult(1, 0)
                             ELSE IF Len(unit) = 3 THEN Mult(1024, n)
                             ELSE Mult(1000, n) ])

\* C12: a size string <number><unit> with unit among B, KB, KiB, MB, MiB,
\* GB, GiB, TB, TiB parses to number times the unit's multiplier (1000^n,
\* or 1024^n for the "i" units); any other string (unknown unit such as PB
\* or iB, trailing characters after the unit, no number) parses to null.
C12_ParseSize ==
    pc = "parsed" => unit_out = SizeExpected(strip(unit_in))

\* what the external command can do: exit with a code, or make
\* subprocess.run raise (missing binary, timeout, anything else)
ExitCodes == { 0, 1, 137 }

OutputTexts == { << >>, << " " >>, << "e", "r", "r" >>,
                 << " ", "e", "r", "r", " " >> }

ExceptionTexts == { << >>, << "b", "o", "o", "m" >> }

Outcomes ==
    [ kind : { "exit" }, rc : ExitCodes, stdout : OutputTexts,
      stderr : OutputTexts, msg : { << >> } ]
    \cup [ kind : { "FileNotFoundError", "TimeoutExpired", "Exception" },
           rc : { 0 }, stdout : { << >> }, stderr : { << >> },
           msg : ExceptionTexts ]

Commands == { << "docker", "ps" >>, << "docker", "pause", "worker" >> }

\* " ".join(cmd)
RECURSIVE Join(_)
Join(cmd) ==
    IF Len(cmd) <= 1 THEN cmd
    ELSE << cmd[1], " " >> \o Join(Tail(cmd))

\* str(rc) inside an f-string
RcText(rc) ==
    CASE rc = 0 -> << "0" >>
      [] rc = 1 -> << "1" >>
      [] rc = 137 -> << "1", "3", "7" >>

\* a string built as prefix + text
Text(prefix, cs) == [ prefix |-> prefix, text |-> cs ]

\* what a call gives its caller: a result, or an exception
Returned(res) == [ raised |-> FALSE, result |-> Some(res) ]
Raised == [ raised |-> TRUE, result |-> None ]

\* _run of chaos_agent.py
_run(cmd, o) ==
    IF o.kind = "exit"
    THEN Returned([ cmd |-> Join(cmd),
                    stdout |-> Some(strip(o.stdout)),
                    stderr |-> Some(strip(o.stderr)),
                    rc |-> o.rc,
                    error |-> IF o.rc = 0 THEN None
                              ELSE IF strip(o.stderr) # << >>
                              THEN Some(Text("", strip(o.stderr)))
                              ELSE Some(Text("exit ", RcText(o.rc))) ])
    ELSE Returned([ cmd |-> Join(cmd), stdout |-> Some(<< >>),
                    stderr |-> Some(<< >>), rc |-> -1,
                    error |-> Some(Text("", o.msg)) ])

_run_docker_uncaught(cmd, o) ==
    CASE o.kind = "exit" ->
           Returned([ cmd |-> Join(cmd),
                      stdout |-> Some(strip(o.stdout)),
                      stderr |-> Some(strip(o.stderr)),
                      rc |-> o.rc,
                      error |-> IF o.rc = 0 THEN None
                                ELSE IF strip(o.stderr) # << >>
                                THEN Some(Text("", strip(o.stderr)))
                                ELSE Some(Text("Non-zero exit ",
                                               RcText(o.rc))) ])
      [] o.kind = "FileNotFoundError" ->
           Returned([ cmd |-> Join(cmd), stdout |-> None, stderr |-> None,
                      rc |-> -1,
                      error |-> Some(Text("Docker not found: ", o.msg)) ])
      [] o.kind = "TimeoutExpired" ->
           Returned([ cmd |-> Join(cmd), stdout |-> None, stderr |-> None,
                      rc |-> -1,
                      error |-> Some(Text("", << "T", "i", "m", "e",
                                              "o", "u", "t" >>)) ])
      [] OTHER -> Raised

\* _run_docker of docker_functions.py
_run_docker(cmd, o) ==
    CASE o.kind = "exit" ->
           Returned([ cmd |-> Join(cmd),
                      stdout |-> Some(strip(o.stdout)),
                      stderr |-> Some(strip(o.stderr)),
                      rc |-> o.rc,
                      error |-> IF o.rc = 0 THEN None
                                ELSE IF strip(o.stderr) # << >>
                                THEN Some(Text("", strip(o.stderr)))
                                ELSE Some(Text("Non-zero exit ",
                                               RcText(o.rc))) ])
      [] o.kind = "FileNotFoundError" ->
           Returned([ cmd |-> Join(cmd), stdout |-> None, stderr |-> None,
                      rc |-> -1,
                      error |-> Some(Text("Docker not found: ", o.msg)) ])
      [] o.kind = "TimeoutExpired" ->
           Returned([ cmd |-> Join(cmd), stdout |-> None, stderr |-> None,
                      rc |-> -1,
                      error |-> Some(Text("", << "T", "i", "m", "e",
                                              "o", "u", "t" >>)) ])
      [] OTHER ->
           Returned([ cmd |-> Join(cmd), stdout |-> None, stderr |-> None,
                      rc |-> -1,
                      error |-> Some(Text("Unexpected error: ", o.msg)) ])

CallRun ==
    /\ pc = "unit"
    /\ \E cmd \in Commands, o \in Outcomes :
         /\ unit_in' = [ fn |-> "_run", cmd |-> cmd, outcome |-> o ]
         /\ unit_out' = _run(cmd, o)
    /\ pc' = "ran"
    /\ UNCHANGED clientrest

CallRunDocker ==
    /\ pc = "unit"
    /\ \E cmd \in Commands, o \in Outcomes :
         /\ unit_in' = [ fn |-> "_run_docker", cmd |-> cmd, outcome |-> o ]
         /\ unit_out' = _run_docker(cmd, o)
    /\ pc' = "ran"
    /\ UNCHANGED clientrest

\* C13: every call of _run and _run_docker returns a result and never
\* raises, whatever the external command does (exit code, missing binary,
\* timeout, other exception); the result's error is null iff the command
\* ran and exited with code 0.
C13_NeverRaises ==
    pc = "ran" =>
      /\ ~ unit_out.raised
      /\ unit_out.result # None
      /\ unit_out.result[1].error = None
           <=> (unit_in.outcome.kind = "exit" /\ unit_in.outcome.rc = 0)

\* an exception with an empty message, caught by _run_docker's last handler
C13_Witness ==
    /\ pc = "ran"
    /\ unit_in.fn = "_run_docker"
    /\ unit_in.outcome.kind = "Exception"
    /\ unit_in.outcome.msg = << >>
    /\ ~ unit_out.raised
    /\ unit_out.result[1].rc = -1
    /\ unit_out.result[1].error # None

NextClient ==
    \/ CallUpdateResources
    \/ CallParseSize
    \/ CallRun
    \/ CallRunDocker

SpecClient == InitClient /\ [][NextClient]_vars

=============================================================================
